---- MODULE Spec2Model ----
(***************************************************************************)
(* SOLECO backtest engine: runBacktest (the day loop: screening, LST cap,  *)
(* rank cut, weight allocation, drift, index NAV) and the standalone       *)
(* screening engine (screenAsset, screenUniverse).                         *)
(*                                                                         *)
(* Numbers.  A JavaScript number is modelled as an exact rational          *)
(* [n, d] in lowest terms with d > 0; d = 0 holds the three non-finite     *)
(* values (n = 0: NaN, n = 1: +Infinity, n = -1: -Infinity).  Rounding of  *)
(* doubles is not modelled: "equals" below is exact equality of rationals. *)
(* Dates are day indices of the trimmed calendar.                          *)
(***************************************************************************)
EXTENDS Integers, Sequences, FiniteSets, TLC

VARIABLES
  config,            \* BacktestConfig: rebalanceInterval, numAssets, maxWeight, fixedWeights
  fullUniverse,      \* fullUniverse: sequence of BacktestAsset records
  assetDataMap,      \* symbol -> [prices, mcaps, vols], aligned, days 0 .. d-1
  d,                 \* the loop counter of the day loop (days 0 .. d-1 are done)
  currentPortfolio,  \* sequence of [symbol, shares, weight]
  weightHistoryMap,  \* symbol -> sequence of recorded weights, days 0 .. d-1
  rebalanceHistory,  \* sequence of RebalanceEvent
  lastBranch,        \* which branch of the loop body ran on day d-1
  pc,                \* "loop" while the day loop runs, "done" once runBacktest returned
  result,            \* the BacktestResponse fields once pc = "done"
  screening,         \* the UniverseScreeningResult of a standalone screenUniverse call
  feed,              \* the input series still to come: how the next day's data is drawn
  priceData,         \* symbol -> NormalizedPriceData [dates, prices, marketCaps, volumes]
  backtestDates,     \* the trimmed calendar (dates are day numbers)
  series,            \* the argument of a calculateStats call
  stats,             \* the FinancialStats it returned
  runs,              \* two runBacktest calls on one config and priceData: their progress
  now,               \* the wall clock, which moves while a call is suspended
  cache,             \* cacheService: the entry stored for one asset and day count
  fetch              \* a fetch of that asset: its progress and what it returned

\* two calls of runBacktest, the clock, the price cache and a fetch
callVars == << runs, now, cache, fetch >>

\* the input of runBacktest's first part, the calculateStats call, and callVars
givenVars == << priceData, backtestDates, series, stats, callVars >>

vars == << config, fullUniverse, assetDataMap, d, currentPortfolio, weightHistoryMap,
           rebalanceHistory, lastBranch, pc, result, screening, feed, givenVars >>

-----------------------------------------------------------------------------
(* Numbers *)

Abs(x) == IF x < 0 THEN -x ELSE x

Sign(x) == IF x < 0 THEN -1 ELSE IF x > 0 THEN 1 ELSE 0

RECURSIVE Gcd(_, _)
Gcd(a, b) == IF b = 0 THEN a ELSE Gcd(b, a % b)

NaN == [n |-> 0, d |-> 0]

\* n / d in lowest terms; x / 0 is +-Infinity, 0 / 0 is NaN
Rat(n, dd) ==
  IF dd = 0 THEN [n |-> Sign(n), d |-> 0]
  ELSE LET g == Gcd(Abs(n), Abs(dd))
           s == Sign(dd)
       IN  [n |-> (s * n) \div g, d |-> (s * dd) \div g]

RInt(k) == [n |-> k, d |-> 1]

Zero == RInt(0)

One == RInt(1)

IsFinite(a) == a.d # 0

IsNaN(a) == a.d = 0 /\ a.n = 0

RAdd(a, b) ==
  IF IsNaN(a) \/ IsNaN(b) THEN NaN
  ELSE IF a.d = 0 /\ b.d = 0 THEN (IF a.n = b.n THEN a ELSE NaN)
  ELSE IF a.d = 0 THEN a
  ELSE IF b.d = 0 THEN b
  ELSE LET g == Gcd(a.d, b.d)
       IN  Rat(a.n * (b.d \div g) + b.n * (a.d \div g), (a.d \div g) * b.d)

RNeg(a) == [n |-> -a.n, d |-> a.d]

RSub(a, b) == RAdd(a, RNeg(b))

RMul(a, b) ==
  IF IsNaN(a) \/ IsNaN(b) THEN NaN
  ELSE IF a.d = 0 \/ b.d = 0
       THEN [n |-> Sign(a.n) * Sign(b.n), d |-> 0]
       ELSE LET g1 == Gcd(Abs(a.n), b.d)
                g2 == Gcd(Abs(b.n), a.d)
            IN  Rat((a.n \div g1) * (b.n \div g2), (a.d \div g2) * (b.d \div g1))

RDiv(a, b) ==
  IF IsNaN(a) \/ IsNaN(b) THEN NaN
  ELSE IF a.d = 0 /\ b.d = 0 THEN NaN
  ELSE IF a.d = 0 THEN [n |-> a.n * (IF b.n < 0 THEN -1 ELSE 1), d |-> 0]
  ELSE IF b.d = 0 THEN Zero
  ELSE Rat(a.n * b.d, a.d * b.n)

\* a < b and a > b as JavaScript compares numbers: false when either is NaN
RLt(a, b) ==
  /\ ~IsNaN(a)
  /\ ~IsNaN(b)
  /\ IF a.d = 0 /\ b.d = 0 THEN a.n < b.n
     ELSE IF a.d = 0 THEN a.n < 0
     ELSE IF b.d = 0 THEN b.n > 0
     ELSE a.n * b.d < b.n * a.d

RGt(a, b) == RLt(b, a)

RLe(a, b) == ~IsNaN(a) /\ ~IsNaN(b) /\ ~RLt(b, a)

\* x || fallback on a number: 0 and NaN are falsy
OrElse(x, fallback) == IF x = 0 THEN fallback ELSE x

-----------------------------------------------------------------------------
(* Sequences *)

Range(s) == {s[i] : i \in 1..Len(s)}

RECURSIVE SumSeq(_)
SumSeq(s) == IF s = << >> THEN 0 ELSE s[1] + SumSeq(Tail(s))

\* arr.reduce((a, b) => a + b, 0) on numbers
RECURSIVE RSum(_)
RSum(s) == IF s = << >> THEN Zero ELSE RAdd(RSum(SubSeq(s, 1, Len(s) - 1)), s[Len(s)])

\* arr.filter(keep) on indices: the indices i of s with keep[i], in order
RECURSIVE FilterIdx(_, _)
FilterIdx(n, keep) ==
  IF n = 0 THEN << >>
  ELSE IF keep[n] THEN Append(FilterIdx(n - 1, keep), n) ELSE FilterIdx(n - 1, keep)

\* arr.findIndex(x => x.symbol === sym): the first index, 0 when there is none
RECURSIVE FindFrom(_, _, _)
FindFrom(s, sym, i) ==
  IF i > Len(s) THEN 0 ELSE IF s[i].symbol = sym THEN i ELSE FindFrom(s, sym, i + 1)

FindSymbol(s, sym) == FindFrom(s, sym, 1)

\* insert index x into the index list idx, sorted by descending key, after every
\* entry whose key is not smaller: Array.prototype.sort is stable
RECURSIVE InsertDesc(_, _, _)
InsertDesc(idx, x, key) ==
  IF idx = << >> THEN << x >>
  ELSE IF key[Head(idx)] >= key[x] THEN << Head(idx) >> \o InsertDesc(Tail(idx), x, key)
  ELSE << x >> \o idx

\* idx.sort((a, b) => key[b] - key[a])
RECURSIVE SortDesc(_, _)
SortDesc(idx, key) ==
  IF idx = << >> THEN << >>
  ELSE InsertDesc(SortDesc(SubSeq(idx, 1, Len(idx) - 1), key), idx[Len(idx)], key)

\* arr.slice(0, n) and arr.slice(n) for n >= 0
SliceTo(s, n) == SubSeq(s, 1, IF n < Len(s) THEN n ELSE Len(s))

SliceFrom(s, n) == SubSeq(s, n + 1, Len(s))

-----------------------------------------------------------------------------
(* Screening constants *)

MIN_AVG_DAILY_VOLUME_USD == 200000

MAX_LST_POSITIONS == 1

EXCLUDED_CATEGORIES == {"Stablecoin"}

BENCHMARK_SYMBOL == "SOL"

-----------------------------------------------------------------------------
(* screeningService: screenAsset *)

CriteriaChecks(asset, marketData) ==
  [ passedLaunchOrNexus   |-> asset.solanaLaunchOrNexus = TRUE,
    passedPrimaryNetwork  |-> asset.primaryNetworkSolana = TRUE,
    passedVolumeThreshold |-> marketData.avgDailyVol >= MIN_AVG_DAILY_VOLUME_USD,
    passedAuditCompliance |-> asset.hasUnresolvedAuditFindings = FALSE,
    passedCategoryCheck   |-> /\ asset.category \notin EXCLUDED_CATEGORIES
                              /\ asset.symbol # BENCHMARK_SYMBOL,
    passedNativeCheck     |-> asset.isNative = TRUE ]

ScreenAssetStatus(checks) ==
  IF ~checks.passedCategoryCheck THEN "REJECTED_CATEGORY"
  ELSE IF ~checks.passedLaunchOrNexus THEN "REJECTED_LAUNCH"
  ELSE IF ~checks.passedPrimaryNetwork THEN "REJECTED_PRIMARY_NETWORK"
  ELSE IF ~checks.passedNativeCheck THEN "REJECTED_NATIVE"
  ELSE IF ~checks.passedVolumeThreshold THEN "REJECTED_VOL"
  ELSE IF ~checks.passedAuditCompliance THEN "REJECTED_AUDIT"
  ELSE "INCLUDED"

screenAsset(asset, marketData) ==
  LET checks == CriteriaChecks(asset, marketData)
  IN  [ symbol         |-> asset.symbol,
        status         |-> ScreenAssetStatus(checks),
        criteriaChecks |-> checks,
        hasMarketData  |-> TRUE,
        mcap           |-> marketData.mcap ]

\* a variant that screens the asset on empty market data instead
NoMarketDataScreened(asset) ==
  [screenAsset(asset, [price |-> 0, mcap |-> 0, avgDailyVol |-> 0])
     EXCEPT !.hasMarketData = FALSE]

\* the result pushed for an asset that marketDataMap has no entry for
NoMarketDataResult(asset) ==
  [ symbol         |-> asset.symbol,
    status         |-> "REJECTED_VOL",
    criteriaChecks |-> [ passedLaunchOrNexus   |-> FALSE,
                         passedPrimaryNetwork  |-> FALSE,
                         passedVolumeThreshold |-> FALSE,
                         passedAuditCompliance |-> FALSE,
                         passedCategoryCheck   |-> FALSE,
                         passedNativeCheck     |-> FALSE ],
    hasMarketData  |-> FALSE,
    mcap           |-> 0 ]

\* assets.find(a => a.symbol === sym)?.category
CategoryOf(assets, sym) ==
  LET k == FindSymbol(assets, sym)
  IN  IF k = 0 THEN "undefined" ELSE assets[k].category

\* set status of the first result whose symbol is sym (results.find(...), if found)
SetStatusBySymbol(items, sym, st) ==
  LET k == FindSymbol(items, sym)
  IN  IF k = 0 THEN items ELSE [items EXCEPT ![k].status = st]

RECURSIVE SetStatusAll(_, _, _)
SetStatusAll(items, syms, st) ==
  IF syms = << >> THEN items
  ELSE SetStatusAll(SetStatusBySymbol(items, Head(syms), st), Tail(syms), st)

\* r.marketData?.mcap || 0
McapKey(items) == [i \in 1..Len(items) |-> items[i].mcap]

SymbolsAt(items, idx) == [k \in 1..Len(idx) |-> items[idx[k]].symbol]

\* the first loop of screenUniverse: one result per asset
ScreenEach(assets, marketDataMap) ==
  [i \in 1..Len(assets) |->
     IF assets[i].symbol \in DOMAIN marketDataMap
     THEN screenAsset(assets[i], marketDataMap[assets[i].symbol])
     ELSE NoMarketDataResult(assets[i])]

\* the LST limit of screenUniverse
ScreenLstLimit(assets, results) ==
  LET isLst == [i \in 1..Len(results) |->
                  results[i].status = "INCLUDED"
                  /\ CategoryOf(assets, results[i].symbol) = "LST"]
      lstResults == FilterIdx(Len(results), isLst)
      sorted == SortDesc(lstResults, McapKey(results))
  IN  [ results  |-> IF Len(lstResults) > MAX_LST_POSITIONS
                     THEN SetStatusAll(results,
                            SymbolsAt(results, SliceFrom(sorted, MAX_LST_POSITIONS)),
                            "REJECTED_CATEGORY")
                     ELSE results,
        lstCount |-> Len(lstResults) ]

\* the market cap ranking of screenUniverse
ScreenRank(results, numAssets) ==
  LET isIn == [i \in 1..Len(results) |-> results[i].status = "INCLUDED"]
      passing == SortDesc(FilterIdx(Len(results), isIn), McapKey(results))
  IN  SetStatusAll(results, SymbolsAt(results, SliceFrom(passing, numAssets)),
                   "REJECTED_RANK")

screenUniverse(assets, marketDataMap, numAssets) ==
  LET first == ScreenEach(assets, marketDataMap)
      lst == ScreenLstLimit(assets, first)
      results == ScreenRank(lst.results, numAssets)
  IN  [ totalEvaluated |-> Len(results),
        results        |-> results,
        lstCount       |-> lst.lstCount ]

-----------------------------------------------------------------------------
(* runBacktest: the dynamic rebalance of one day *)

\* a variant of the cadence table with a biweekly interval of 15 days
RebalanceIntervalHalfMonth(interval) ==
  IF interval = "weekly" THEN 7 ELSE IF interval = "biweekly" THEN 15 ELSE 30

RebalanceIntervalDays(interval) ==
  IF interval = "weekly" THEN 7 ELSE IF interval = "biweekly" THEN 14 ELSE 30

IsRebalanceDay(dd, interval) == dd % RebalanceIntervalDays(interval) = 0 \/ dd = 0

\* a variant of the status chain that checks the volume before the native flag
InlineStatusVolumeFirst(asset, currentVol) ==
  IF asset.category = "Stablecoin" THEN "REJECTED_CATEGORY"
  ELSE IF asset.symbol = "SOL" THEN "REJECTED_CATEGORY"
  ELSE IF ~asset.solanaLaunchOrNexus THEN "REJECTED_LAUNCH"
  ELSE IF ~asset.primaryNetworkSolana THEN "REJECTED_PRIMARY_NETWORK"
  ELSE IF currentVol < MIN_AVG_DAILY_VOLUME_USD THEN "REJECTED_VOL"
  ELSE IF ~asset.isNative THEN "REJECTED_NATIVE"
  ELSE IF asset.hasUnresolvedAuditFindings THEN "REJECTED_AUDIT"
  ELSE "INCLUDED"

\* the status chain of the inline screening
InlineStatus(asset, currentVol) ==
  IF asset.category = "Stablecoin" THEN "REJECTED_CATEGORY"
  ELSE IF asset.symbol = "SOL" THEN "REJECTED_CATEGORY"
  ELSE IF ~asset.solanaLaunchOrNexus THEN "REJECTED_LAUNCH"
  ELSE IF ~asset.primaryNetworkSolana THEN "REJECTED_PRIMARY_NETWORK"
  ELSE IF ~asset.isNative THEN "REJECTED_NATIVE"
  ELSE IF currentVol < MIN_AVG_DAILY_VOLUME_USD THEN "REJECTED_VOL"
  ELSE IF asset.hasUnresolvedAuditFindings THEN "REJECTED_AUDIT"
  ELSE "INCLUDED"

\* fullUniverse.map(asset => ...): the snapshot item of one asset on day dd
InlineItem(asset, dataMap, dd) ==
  IF asset.symbol \notin DOMAIN dataMap
  THEN [ symbol |-> asset.symbol, price |-> 0, mcap |-> 0, avgDailyVol |-> 0,
         isNative |-> asset.isNative, status |-> "REJECTED_VOL", weight |-> Zero ]
  ELSE LET assetData == dataMap[asset.symbol]
       IN  [ symbol      |-> asset.symbol,
             price       |-> assetData.prices[dd + 1],
             mcap        |-> assetData.mcaps[dd + 1],
             avgDailyVol |-> assetData.vols[dd + 1],
             isNative    |-> asset.isNative,
             status      |-> InlineStatus(asset, assetData.vols[dd + 1]),
             weight      |-> Zero ]

EvaluateUniverse(universe, dataMap, dd) ==
  [i \in 1..Len(universe) |-> InlineItem(universe[i], dataMap, dd)]

\* a variant without the LST handling
NoLstHandling(universe, ev) == ev

\* "LST Handling: Only allow ONE LST": the items are changed in place
LstHandling(universe, ev) ==
  LET isCand == [i \in 1..Len(ev) |->
                   CategoryOf(universe, ev[i].symbol) = "LST" /\ ev[i].status = "INCLUDED"]
      lstCandidates == FilterIdx(Len(ev), isCand)
      sorted == SortDesc(lstCandidates, McapKey(ev))
      dropped == Range(SliceFrom(sorted, 1))
  IN  IF Len(lstCandidates) > 1
      THEN [i \in 1..Len(ev) |->
              IF i \in dropped THEN [ev[i] EXCEPT !.status = "REJECTED_CATEGORY"] ELSE ev[i]]
      ELSE ev

\* candidates, sorted by descending market cap (indices into ev)
Candidates(ev) ==
  SortDesc(FilterIdx(Len(ev), [i \in 1..Len(ev) |-> ev[i].status = "INCLUDED"]),
           McapKey(ev))

\* a variant of the rank cut that keeps one candidate more
RankCutKeepsOneMore(ev, numAssets) ==
  SetStatusAll(ev, SymbolsAt(ev, SliceFrom(Candidates(ev), numAssets + 1)), "REJECTED_RANK")

\* candidates.slice(numAssets).forEach(c => find(symbol).status = 'REJECTED_RANK')
RankCut(ev, numAssets) ==
  SetStatusAll(ev, SymbolsAt(ev, SliceFrom(Candidates(ev), numAssets)), "REJECTED_RANK")

\* a variant of the screening that cuts by rank first and limits the LSTs afterwards
ScreenRankBeforeLst(universe, dataMap, numAssets, dd) ==
  LET ev0 == EvaluateUniverse(universe, dataMap, dd)
      ev1 == LstHandling(universe,
               SetStatusAll(ev0, SymbolsAt(ev0, SliceFrom(Candidates(ev0), numAssets)),
                            "REJECTED_RANK"))
      selected == Candidates(ev1)
  IN  [ ev       |-> ev1,
        selected |-> [k \in 1..Len(selected) |-> ev1[selected[k]]] ]

\* the screening part of the rebalance: statuses, and the selected items in rank order
ScreenForRebalance(universe, dataMap, numAssets, dd) ==
  LET ev0 == LstHandling(universe, EvaluateUniverse(universe, dataMap, dd))
      selected == SliceTo(Candidates(ev0), numAssets)
  IN  [ ev       |-> RankCut(ev0, numAssets),
        selected |-> [k \in 1..Len(selected) |-> ev0[selected[k]]] ]

-----------------------------------------------------------------------------
(* runBacktest: weight allocation *)

\* initialWeights: rawWeight = item.mcap / totalRawMcap over the selected items
InitialWeights(selected) ==
  LET totalRawMcap == SumSeq([k \in 1..Len(selected) |-> selected[k].mcap])
  IN  [k \in 1..Len(selected) |->
         [ symbol |-> selected[k].symbol,
           rawWeight |-> Rat(selected[k].mcap, totalRawMcap) ]]

\* a variant of the first map that clips nothing
ClipNothing(initialWeights, maxWeight) ==
  [k \in 1..Len(initialWeights) |->
     [ symbol |-> initialWeights[k].symbol, rawWeight |-> initialWeights[k].rawWeight,
       weight |-> initialWeights[k].rawWeight, capped |-> FALSE ]]

\* the first map: clip at maxWeight, mark the clipped entries
ClipWeights(initialWeights, maxWeight) ==
  [k \in 1..Len(initialWeights) |->
     LET w == initialWeights[k]
     IN  IF RGt(w.rawWeight, maxWeight)
         THEN [ symbol |-> w.symbol, rawWeight |-> w.rawWeight,
                weight |-> maxWeight, capped |-> TRUE ]
         ELSE [ symbol |-> w.symbol, rawWeight |-> w.rawWeight,
                weight |-> w.rawWeight, capped |-> FALSE ]]

\* surplus += w.rawWeight - config.maxWeight, over the clipped entries
Surplus(initialWeights, maxWeight) ==
  RSum([k \in 1..Len(initialWeights) |->
          IF RGt(initialWeights[k].rawWeight, maxWeight)
          THEN RSub(initialWeights[k].rawWeight, maxWeight)
          ELSE Zero])

\* a variant of the redistribution that clips again what the surplus lifts over the cap
\* (the cap is the weight of the clipped entries)
RedistributeReclipped(weightConfig, surplus) ==
  LET uncapped == {k \in 1..Len(weightConfig) : ~weightConfig[k].capped}
      capped == {k \in 1..Len(weightConfig) : weightConfig[k].capped}
  IN  IF RGt(surplus, Zero) /\ uncapped # {} /\ capped # {}
      THEN LET cap == weightConfig[CHOOSE k \in capped : TRUE].weight
           IN  [k \in 1..Len(weightConfig) |->
                  IF k \in uncapped
                  THEN LET w == RAdd(weightConfig[k].weight,
                                     RDiv(surplus, RInt(Cardinality(uncapped))))
                       IN  [weightConfig[k] EXCEPT !.weight = IF RGt(w, cap) THEN cap ELSE w]
                  ELSE weightConfig[k]]
      ELSE weightConfig

\* if (surplus > 0) { if (uncappedCount > 0) ... weight + surplus / uncappedCount }
Redistribute(weightConfig, surplus) ==
  LET uncappedCount == Cardinality({k \in 1..Len(weightConfig) : ~weightConfig[k].capped})
  IN  IF RGt(surplus, Zero) /\ uncappedCount > 0
      THEN [k \in 1..Len(weightConfig) |->
              IF ~weightConfig[k].capped
              THEN [weightConfig[k] EXCEPT
                      !.weight = RAdd(@, RDiv(surplus, RInt(uncappedCount)))]
              ELSE weightConfig[k]]
      ELSE weightConfig

Allocate(selected, maxWeight) ==
  LET initialWeights == InitialWeights(selected)
  IN  Redistribute(ClipWeights(initialWeights, maxWeight),
                   Surplus(initialWeights, maxWeight))

\* weightConfig.forEach(w => find(symbol).weight = w.weight)
RECURSIVE AssignWeights(_, _)
AssignWeights(ev, weightConfig) ==
  IF weightConfig = << >> THEN ev
  ELSE LET k == FindSymbol(ev, Head(weightConfig).symbol)
           ev1 == IF k = 0 THEN ev ELSE [ev EXCEPT ![k].weight = Head(weightConfig).weight]
       IN  AssignWeights(ev1, Tail(weightConfig))

\* assetDataMap[symbol]?.prices[d] || fallback
PriceOr(dataMap, sym, dd, fallback) ==
  IF sym \in DOMAIN dataMap THEN OrElse(dataMap[sym].prices[dd + 1], fallback) ELSE fallback

\* weights.map(w => ({ symbol, shares: w.weight / price, weight: w.weight }))
ToPortfolio(weights, dataMap, dd) ==
  [k \in 1..Len(weights) |->
     [ symbol |-> weights[k].symbol,
       shares |-> RDiv(weights[k].weight, RInt(PriceOr(dataMap, weights[k].symbol, dd, 1))),
       weight |-> weights[k].weight ]]

\* the dynamic branch of a rebalance day
DynamicRebalance(cfg, universe, dataMap, dd) ==
  LET scr == ScreenForRebalance(universe, dataMap, cfg.numAssets, dd)
      weightConfig == Allocate(scr.selected, cfg.maxWeight)
  IN  [ portfolio |-> ToPortfolio(weightConfig, dataMap, dd),
        event     |-> [ date             |-> dd,
                        universeSnapshot |-> AssignWeights(scr.ev, weightConfig),
                        totalMcap        |-> SumSeq([k \in 1..Len(scr.selected) |->
                                                       scr.selected[k].mcap]),
                        turnover         |-> 0 ] ]

-----------------------------------------------------------------------------
(* runBacktest: the fixed-weight branch of the first day *)

\* Object.entries(config.fixedWeights) whose symbol has aligned data
FixedWeightConfig(cfg, dataMap) ==
  LET e == cfg.fixedWeights.entries
      idx == FilterIdx(Len(e), [i \in 1..Len(e) |-> e[i].symbol \in DOMAIN dataMap])
  IN  [k \in 1..Len(idx) |-> e[idx[k]]]

FixedSnapshotItem(w, dataMap, dd) ==
  LET has == w.symbol \in DOMAIN dataMap
  IN  [ symbol      |-> w.symbol,
        price       |-> IF has THEN dataMap[w.symbol].prices[dd + 1] ELSE 0,
        mcap        |-> IF has THEN dataMap[w.symbol].mcaps[dd + 1] ELSE 0,
        avgDailyVol |-> IF has THEN dataMap[w.symbol].vols[dd + 1] ELSE 0,
        isNative    |-> TRUE,
        status      |-> "INCLUDED",
        weight      |-> w.weight ]

FixedRebalance(cfg, dataMap, dd) ==
  LET fixedWeightConfig == FixedWeightConfig(cfg, dataMap)
      ev == [k \in 1..Len(fixedWeightConfig) |->
               FixedSnapshotItem(fixedWeightConfig[k], dataMap, dd)]
  IN  [ portfolio |-> ToPortfolio(fixedWeightConfig, dataMap, dd),
        event     |-> [ date             |-> dd,
                        universeSnapshot |-> ev,
                        totalMcap        |-> SumSeq([k \in 1..Len(ev) |-> ev[k].mcap]),
                        turnover         |-> 0 ] ]

-----------------------------------------------------------------------------
(* runBacktest: drift, and the body of the day loop *)

\* val = p.shares * (price || 1)
DriftValues(portfolio, dataMap, dd) ==
  [k \in 1..Len(portfolio) |->
     RMul(portfolio[k].shares, RInt(PriceOr(dataMap, portfolio[k].symbol, dd, 1)))]

\* a variant of the drift weight that is not divided by the portfolio value
DriftWeightUnnormalised(val, totalVal) == val

\* p.weight = totalVal > 0 ? p.val / totalVal : 0
DriftWeight(val, totalVal) == IF RGt(totalVal, Zero) THEN RDiv(val, totalVal) ELSE Zero

\* driftPortfolio.forEach(p => currentPortfolio.find(symbol).weight = p.weight)
RECURSIVE WriteDrift(_, _, _, _)
WriteDrift(portfolio, vals, totalVal, k) ==
  IF k > Len(portfolio) THEN portfolio
  ELSE LET j == FindSymbol(portfolio, portfolio[k].symbol)
       IN  WriteDrift([portfolio EXCEPT ![j].weight = DriftWeight(vals[k], totalVal)],
                      vals, totalVal, k + 1)

Drift(portfolio, dataMap, dd) ==
  LET vals == DriftValues(portfolio, dataMap, dd)
  IN  WriteDrift(portfolio, vals, RSum(vals), 1)

FixedSet(cfg) == cfg.fixedWeights.set

\* the branch of the loop body taken on day dd
DayKind(cfg, dd) ==
  IF IsRebalanceDay(dd, cfg.rebalanceInterval)
  THEN IF FixedSet(cfg) /\ dd = 0 THEN "fixed"
       ELSE IF ~FixedSet(cfg) THEN "rebalance"
       ELSE "hold"
  ELSE IF ~FixedSet(cfg) THEN "drift"
       ELSE "hold"

\* one iteration of for (d = 0; d < backtestDates.length; d++), before the recording
LoopBody(cfg, universe, dataMap, portfolio, dd) ==
  LET kind == DayKind(cfg, dd)
  IN  IF kind = "fixed"
      THEN LET r == FixedRebalance(cfg, dataMap, dd)
           IN  [ portfolio |-> r.portfolio, events |-> << r.event >>, branch |-> kind ]
      ELSE IF kind = "rebalance"
      THEN LET r == DynamicRebalance(cfg, universe, dataMap, dd)
           IN  [ portfolio |-> r.portfolio, events |-> << r.event >>, branch |-> kind ]
      ELSE IF kind = "drift"
      THEN [ portfolio |-> Drift(portfolio, dataMap, dd), events |-> << >>, branch |-> kind ]
      ELSE [ portfolio |-> portfolio, events |-> << >>, branch |-> kind ]

\* the weight the recording loop leaves for symbol sym: the last entry's, 0 when not held
RECURSIVE HeldWeight(_, _)
HeldWeight(portfolio, sym) ==
  IF Len(portfolio) = 0 THEN Zero
  ELSE IF portfolio[Len(portfolio)].symbol = sym THEN portfolio[Len(portfolio)].weight
  ELSE HeldWeight(SubSeq(portfolio, 1, Len(portfolio) - 1), sym)

\* a variant of the recording that merges: an asset no longer held keeps the weight
\* recorded the day before
RecordWeightsMerged(whm, portfolio) ==
  [sym \in DOMAIN whm |->
     Append(whm[sym],
            IF \E k \in 1..Len(portfolio) : portfolio[k].symbol = sym
            THEN HeldWeight(portfolio, sym)
            ELSE IF Len(whm[sym]) > 0 THEN whm[sym][Len(whm[sym])] ELSE Zero)]

\* currentPortfolio.forEach(p => weightHistoryMap[p.symbol][d] = p.weight)
RecordWeights(whm, portfolio) ==
  [sym \in DOMAIN whm |-> Append(whm[sym], HeldWeight(portfolio, sym))]

(***************************************************************************)
(* calculateStats *)
(*                                                                         *)
(* Math.sqrt and Math.pow leave the rationals.  Where the result is exact  *)
(* (the square root of 0, a power of 0 or 1, a non-finite argument) it is  *)
(* the number itself; otherwise it is kept as a term: [sqrt |-> x] is the  *)
(* positive square root of x, [pow |-> b, exp |-> e] is b^e - 1, and       *)
(* [num |-> a, den |-> b] is a / b with a term on either side.  A term is  *)
(* never 0.                                                                *)
(***************************************************************************)
IsRat(a) == DOMAIN a = {"n", "d"}

\* Math.sqrt(x)
MathSqrt(x) ==
  IF IsNaN(x) \/ RLt(x, Zero) THEN NaN
  ELSE IF x = Zero \/ ~IsFinite(x) THEN x
  ELSE [sqrt |-> x]

\* Math.pow(base, 365 / daysInPeriod) - 1
PowMinusOne(base, daysInPeriod) ==
  IF IsNaN(base) THEN NaN
  ELSE IF base = One \/ base = Zero THEN RSub(base, One)
  ELSE IF base = [n |-> 1, d |-> 0] THEN base
  ELSE IF RLt(base, Zero) /\ 365 % daysInPeriod # 0 THEN NaN
  ELSE IF ~IsFinite(base) THEN base
  ELSE [pow |-> base, exp |-> Rat(365, daysInPeriod)]

\* dailyVol * Math.sqrt(365): 0, NaN and Infinity are unchanged by the factor
TimesSqrt365(dailyVol) ==
  IF IsRat(dailyVol) THEN dailyVol ELSE [sqrt |-> RMul(dailyVol.sqrt, RInt(365))]

\* a / b, a being a number or a power term, b a number or a root term
Divide(a, b) ==
  IF IsRat(a) /\ IsRat(b) THEN RDiv(a, b)
  ELSE IF (IsRat(a) /\ IsNaN(a)) \/ (IsRat(b) /\ IsNaN(b)) THEN NaN
  ELSE IF IsRat(b) /\ b = Zero
       THEN [n |-> IF RLt(One, a.pow) THEN 1 ELSE -1, d |-> 0]
  ELSE IF IsRat(b) THEN Zero
  ELSE IF IsRat(a) /\ (a = Zero \/ ~IsFinite(a)) THEN a
  ELSE [num |-> a, den |-> b]

\* arr.reduce((a, b) => a + Math.pow(b - mean, 2), 0) / arr.length
Variance(arr) ==
  LET mean == RDiv(RSum(arr), RInt(Len(arr)))
      sq == [i \in 1..Len(arr) |-> RMul(RSub(arr[i], mean), RSub(arr[i], mean))]
  IN  RDiv(RSum(sq), RInt(Len(arr)))

calculateStdDev(arr) == IF Len(arr) = 0 THEN Zero ELSE MathSqrt(Variance(arr))

\* the loop of calculateStats from index i (1-based; the code starts at its index 1):
\* the running peak and the deepest drawdown after the last point
RECURSIVE DrawdownLoop(_, _, _, _)
DrawdownLoop(nav, i, peak, maxDrawdown) ==
  IF i > Len(nav) THEN maxDrawdown
  ELSE LET peak1 == IF RGt(nav[i], peak) THEN nav[i] ELSE peak
           drawdown == RSub(RDiv(nav[i], peak1), One)
       IN  DrawdownLoop(nav, i + 1, peak1,
                        IF RLt(drawdown, maxDrawdown) THEN drawdown ELSE maxDrawdown)

DailyReturns(nav) == [i \in 1..(Len(nav) - 1) |-> RSub(RDiv(nav[i + 1], nav[i]), One)]

\* annualized_volatility === 0 ? 0 : annualized_return / annualized_volatility
SharpeRatioUnguarded(annualized_return, annualized_volatility) ==
  Divide(annualized_return, annualized_volatility)

SharpeRatio(annualized_return, annualized_volatility) ==
  IF annualized_volatility = Zero THEN Zero
  ELSE Divide(annualized_return, annualized_volatility)

calculateStats(nav) ==
  IF Len(nav) < 2
  THEN [called |-> TRUE, cumulative_return |-> Zero, annualized_return |-> Zero,
        annualized_volatility |-> Zero, sharpe_ratio |-> Zero, max_drawdown |-> Zero]
  ELSE LET startNav == nav[1]
           endNav == nav[Len(nav)]
           cumulative_return == RSub(RDiv(endNav, startNav), One)
           maxDrawdown == DrawdownLoop(nav, 2, [n |-> -1, d |-> 0], Zero)
           daysInPeriod == Len(nav)
           annualized_return == PowMinusOne(RAdd(One, cumulative_return), daysInPeriod)
           dailyVol == calculateStdDev(DailyReturns(nav))
           annualized_volatility == TimesSqrt365(dailyVol)
       IN  [called |-> TRUE, cumulative_return |-> cumulative_return,
            annualized_return |-> annualized_return,
            annualized_volatility |-> annualized_volatility,
            sharpe_ratio |-> SharpeRatio(annualized_return, annualized_volatility),
            max_drawdown |-> maxDrawdown]

-----------------------------------------------------------------------------
(* runBacktest: after the loop *)

UniverseSymbols(universe) == [i \in 1..Len(universe) |-> universe[i].symbol]

\* a filter that keeps every symbol whose recorded weight is ever different from 0
ActiveSymbolsNonZero(universe, whm) ==
  LET syms == UniverseSymbols(universe)
      idx == FilterIdx(Len(syms),
               [i \in 1..Len(syms) |->
                  \E t \in 1..Len(whm[syms[i]]) : whm[syms[i]][t] # Zero])
  IN  [k \in 1..Len(idx) |-> syms[idx[k]]]

\* Object.keys(weightHistoryMap).filter(sym => weightHistoryMap[sym].some(w => w > 0))
ActiveSymbols(universe, whm) ==
  LET syms == UniverseSymbols(universe)
      idx == FilterIdx(Len(syms),
               [i \in 1..Len(syms) |->
                  \E t \in 1..Len(whm[syms[i]]) : RGt(whm[syms[i]][t], Zero)])
  IN  [k \in 1..Len(idx) |-> syms[idx[k]]]

\* a variant of the term that takes the weight recorded on day dd itself
DailyRetTermSameDay(sym, whm, dataMap, dd) ==
  LET w == whm[sym][dd + 1]
      prices == dataMap[sym].prices
  IN  IF RGt(w, Zero) /\ prices[dd + 1] # 0 /\ prices[dd] # 0
      THEN RMul(w, RSub(Rat(prices[dd + 1], prices[dd]), One))
      ELSE Zero

\* a variant of the term that takes the return of the market cap instead of the price
DailyRetTermByCap(sym, whm, dataMap, dd) ==
  LET w == whm[sym][dd]
      mcaps == dataMap[sym].mcaps
  IN  IF RGt(w, Zero) /\ mcaps[dd + 1] # 0 /\ mcaps[dd] # 0
      THEN RMul(w, RSub(Rat(mcaps[dd + 1], mcaps[dd]), One))
      ELSE Zero

\* the term of asset sym in dailyRet of day dd (0 when one of the guards fails)
DailyRetTerm(sym, whm, dataMap, dd) ==
  LET w == whm[sym][dd]
      prices == dataMap[sym].prices
  IN  IF RGt(w, Zero) /\ prices[dd + 1] # 0 /\ prices[dd] # 0
      THEN RMul(w, RSub(Rat(prices[dd + 1], prices[dd]), One))
      ELSE Zero

DailyRet(active, whm, dataMap, dd) ==
  RSum([k \in 1..Len(active) |-> DailyRetTerm(active[k], whm, dataMap, dd)])

\* for (let d = 1; d < backtestDates.length; d++) indexNav.push(indexNav[d-1] * (1 + dailyRet))
RECURSIVE NavLoop(_, _, _, _, _, _)
NavLoop(indexNav, active, whm, dataMap, dd, numDays) ==
  IF dd >= numDays THEN indexNav
  ELSE NavLoop(Append(indexNav,
                      RMul(indexNav[dd], RAdd(One, DailyRet(active, whm, dataMap, dd)))),
               active, whm, dataMap, dd + 1, numDays)

\* const indexNav = [100], then the loop
IndexNav(active, whm, dataMap, numDays) ==
  NavLoop(<< RInt(100) >>, active, whm, dataMap, 1, numDays)

\* insert constituent c into the list cs sorted by descending currentWeight, after every
\* entry that the comparator b.currentWeight - a.currentWeight does not put behind it
\* (the sort is stable; a NaN difference counts as 0)
RECURSIVE InsertConstituent(_, _)
InsertConstituent(cs, c) ==
  IF cs = << >> THEN << c >>
  ELSE IF RGt(c.currentWeight, Head(cs).currentWeight) THEN << c >> \o cs
  ELSE << Head(cs) >> \o InsertConstituent(Tail(cs), c)

RECURSIVE SortConstituents(_)
SortConstituents(cs) ==
  IF cs = << >> THEN << >>
  ELSE InsertConstituent(SortConstituents(SubSeq(cs, 1, Len(cs) - 1)), cs[Len(cs)])

\* activeSymbols.map(sym => ({symbol, currentWeight: weights[weights.length - 1], ...}))
\*   .sort((a, b) => b.currentWeight - a.currentWeight)
Constituents(active, whm) ==
  SortConstituents([k \in 1..Len(active) |->
                      [ symbol        |-> active[k],
                        currentWeight |-> whm[active[k]][Len(whm[active[k]])],
                        weights       |-> whm[active[k]] ]])

\* a variant that looks at the volume of the last day only
LastVolEligible(vols) == Len(vols) > 0 /\ vols[Len(vols)] >= 200000

\* data.vols.reduce((x, y) => x + y, 0) / data.vols.length >= 200000
AvgVolEligible(vols) == Len(vols) > 0 /\ SumSeq(vols) >= 200000 * Len(vols)

\* eligibleVol, failedNative, failedVolume and the universeStats of the result
UniverseStats(cfg, universe, dataMap) ==
  LET eligibleVol == FilterIdx(Len(universe),
                       [i \in 1..Len(universe) |->
                          /\ universe[i].symbol \in DOMAIN dataMap
                          /\ AvgVolEligible(dataMap[universe[i].symbol].vols)])
      failedNative == Cardinality({k \in 1..Len(eligibleVol) :
                                     ~universe[eligibleVol[k]].isNative})
      failedVolume == Len(universe) - Len(eligibleVol)
  IN  [ totalEvaluated |-> Len(universe),
        failedVolume   |-> failedVolume,
        failedNative   |-> failedNative,
        eligibleCount  |-> Len(eligibleVol) - failedNative,
        finalSelected  |-> cfg.numAssets ]

\* solPrices.map(p => (p / (solPrices[0] || 1)) * 100)
BenchmarkNav(dataMap) ==
  LET solPrices == IF "SOL" \in DOMAIN dataMap THEN dataMap["SOL"].prices ELSE << >>
  IN  [i \in 1..Len(solPrices) |->
         RMul(Rat(solPrices[i], OrElse(solPrices[1], 1)), RInt(100))]

-----------------------------------------------------------------------------
(* Inputs: the asset table, the configurations and the daily series *)

Asset(sym, cat, native, launch, primary, audit) ==
  [ symbol |-> sym, category |-> cat, isNative |-> native,
    solanaLaunchOrNexus |-> launch, primaryNetworkSolana |-> primary,
    hasUnresolvedAuditFindings |-> audit ]

\* an entry of SOLANA_ASSETS: every entry is native and passes the attested criteria
Vetted(sym, cat) == Asset(sym, cat, TRUE, TRUE, TRUE, FALSE)

\* the entries of SOLANA_ASSETS used here, in table order, and one custom LST
\* (customAssets: isNative is forced to true, the flags are the user's attestation)
SimUniverse ==
  << Vetted("SOL", "L1"), Vetted("JITOSOL", "LST"), Vetted("JUP", "DeFi"),
     Vetted("BONK", "Meme"), Asset("MSOL", "LST", TRUE, TRUE, TRUE, FALSE) >>

Row(p, m, v) == [price |-> p, mcap |-> m, vol |-> v]

SolRow == Row(1, 3, MIN_AVG_DAILY_VOLUME_USD)

VolOk == MIN_AVG_DAILY_VOLUME_USD

VolLow == MIN_AVG_DAILY_VOLUME_USD - 1

\* the market states the simulated series move between (symbol -> price, mcap, volume);
\* XTRA has a series in priceData but is in neither SOLANA_ASSETS nor customAssets
MarketMenu ==
  << [ SOL |-> Row(1, 3, VolOk), JITOSOL |-> Row(1, 3, VolOk), JUP |-> Row(1, 3, VolOk),
       BONK |-> Row(1, 1, VolOk), MSOL |-> Row(1, 1, VolOk), XTRA |-> Row(1, 1, VolOk) ],
     [ SOL |-> Row(2, 3, VolOk), JITOSOL |-> Row(1, 1, VolOk), JUP |-> Row(2, 1, VolLow),
       BONK |-> Row(3, 3, VolOk), MSOL |-> Row(2, 3, VolOk), XTRA |-> Row(2, 1, VolOk) ],
     [ SOL |-> Row(1, 3, VolOk), JITOSOL |-> Row(2, 0, VolOk), JUP |-> Row(0, 0, VolOk),
       BONK |-> Row(1, 0, VolOk), MSOL |-> Row(1, 0, VolLow), XTRA |-> Row(1, 1, VolOk) ] >>

MaxDays == 31

MaxChanges == 1

MaxNumAssets == 3

MaxWeights == {Rat(2, 5), Rat(3, 5), One}

Intervals == {"weekly", "biweekly", "monthly"}

NoFixedWeights == [set |-> FALSE, entries |-> << >>]

FixedWeights(entries) == [set |-> TRUE, entries |-> entries]

FW(sym, w) == [symbol |-> sym, weight |-> w]

\* the days on which the simulated series may change: a rebalance day or the day after
ChangeDay(dd, interval) ==
  dd % RebalanceIntervalDays(interval) \in {0, 1}

FreeRows(f) == {Row(p, m, v) : p \in f.prices, m \in f.mcaps, v \in f.vols}

\* the data of the next day, with the feed it leaves
DayChoices(f, universe, cfg, dd) ==
  LET syms == Range(UniverseSymbols(universe))
  IN  IF f.kind = "free"
      THEN {[data |-> md, feed |-> f] :
              md \in {g \in [syms -> FreeRows(f) \cup {SolRow}] :
                        \A sym \in syms : IF sym = "SOL" THEN g[sym] = SolRow
                                                           ELSE g[sym] \in FreeRows(f)}}
      ELSE LET mayChange == f.changes < MaxChanges /\ ChangeDay(dd, cfg.rebalanceInterval)
               js == IF f.cur = 0 \/ mayChange THEN 1..Len(MarketMenu) ELSE {f.cur}
           IN  {[data |-> MarketMenu[j],
                 feed |-> [f EXCEPT !.cur = j,
                                    !.changes = IF f.cur \in {0, j} THEN @ ELSE @ + 1]] :
                  j \in js}

\* the aligned arrays with one more day
AppendDay(dataMap, md) ==
  [sym \in DOMAIN dataMap |->
     [ prices |-> Append(dataMap[sym].prices, md[sym].price),
       mcaps  |-> Append(dataMap[sym].mcaps, md[sym].mcap),
       vols   |-> Append(dataMap[sym].vols, md[sym].vol) ]]

NoResult == [numDays |-> 0, nav |-> << >>, activeSymbols |-> << >>, constituents |-> << >>]

NoScreening == [called |-> FALSE, missing |-> {}, results |-> << >>, lstCount |-> 0]

\* the day-loop runs start from the aligned arrays: the raw series are not kept
NoPriceData == << >>

NoStats == [called |-> FALSE]

\* no runBacktest call observed
NoRuns == << >>

\* no entry under the cache key (store.get gives undefined)
NoEntry == [held |-> FALSE]

\* no fetch observed
NoFetch == [pc |-> "none"]

InitRun(universe, priced) ==
  /\ fullUniverse = universe
  /\ assetDataMap = [sym \in priced |->
                       [prices |-> << >>, mcaps |-> << >>, vols |-> << >>]]
  /\ d = 0
  /\ currentPortfolio = << >>
  /\ weightHistoryMap = [sym \in Range(UniverseSymbols(universe)) |-> << >>]
  /\ rebalanceHistory = << >>
  /\ lastBranch = "none"
  /\ pc = "loop"
  /\ result = NoResult
  /\ screening = NoScreening
  /\ priceData = NoPriceData
  /\ backtestDates = << >>
  /\ series = << >>
  /\ stats = NoStats
  /\ runs = NoRuns
  /\ now = 0
  /\ cache = NoEntry
  /\ fetch = NoFetch

\* the multi-day runs: the simulated universe, series drawn from the market menu
Init ==
  /\ InitRun(SimUniverse, DOMAIN MarketMenu[1])
  /\ \E iv \in Intervals, n \in {2, 3}, mw \in {Rat(2, 5), Rat(3, 5)},
        fw \in { NoFixedWeights,
                 FixedWeights(<< FW("JUP", Rat(1, 2)), FW("XTRA", Rat(3, 10)),
                                 FW("GHOST", Rat(1, 5)) >>),
                 FixedWeights(<< FW("JITOSOL", Rat(3, 5)), FW("MSOL", Rat(2, 5)) >>) } :
       /\ (n = 2) <=> (mw = Rat(2, 5))
       /\ fw.set => (iv = "weekly" /\ n = 2)
       /\ config = [rebalanceInterval |-> iv, numAssets |-> n, maxWeight |-> mw,
                    fixedWeights |-> fw]
  /\ feed = [kind |-> "menu", horizon |-> MaxDays, cur |-> 0, changes |-> 0,
             prices |-> {}, mcaps |-> {}, vols |-> {}, missing |-> {{}}]

\* one-day runs on a table <<SOL, X>> where X has every combination of attributes
InitAttributes ==
  /\ \E cat \in {"Stablecoin", "LST", "DeFi"}, native \in BOOLEAN, launch \in BOOLEAN,
        primary \in BOOLEAN, audit \in BOOLEAN :
       InitRun(<< Vetted("SOL", "L1"), Asset("X", cat, native, launch, primary, audit) >>,
               {"SOL", "X"})
  /\ \E n \in 0..1 :
       config = [rebalanceInterval |-> "weekly", numAssets |-> n, maxWeight |-> One,
                 fixedWeights |-> NoFixedWeights]
  /\ feed = [kind |-> "free", horizon |-> 1, cur |-> 0, changes |-> 0,
             prices |-> {1}, mcaps |-> {1}, vols |-> {VolLow, VolOk},
             missing |-> {{}, {"X"}}]

\* one-day runs on a table <<SOL, A, B, C>> of vetted assets, LST or not, with every
\* combination of market caps and volumes
InitMarket ==
  /\ \E ca \in {"DeFi", "LST"}, cb \in {"DeFi", "LST"}, cc \in {"DeFi", "LST"} :
       InitRun(<< Vetted("SOL", "L1"), Vetted("A", ca), Vetted("B", cb), Vetted("C", cc) >>,
               {"SOL", "A", "B", "C"})
  /\ \E n \in 1..MaxNumAssets, mw \in MaxWeights,
        fw \in { NoFixedWeights,
                 FixedWeights(<< FW("A", Rat(1, 2)), FW("B", Rat(1, 2)) >>) } :
       /\ fw.set => (n = 1 /\ mw = One)
       /\ config = [rebalanceInterval |-> "weekly", numAssets |-> n, maxWeight |-> mw,
                    fixedWeights |-> fw]
  /\ feed = [kind |-> "free", horizon |-> 1, cur |-> 0, changes |-> 0,
             prices |-> {1}, mcaps |-> {0, 1, 3}, vols |-> {VolLow, VolOk},
             missing |-> {{}, {"A"}}]

InitOneDay == InitAttributes \/ InitMarket

-----------------------------------------------------------------------------
(* Actions *)

\* one iteration of the day loop on the data md of day d
Day(choice) ==
  LET dataMap == AppendDay(assetDataMap, choice.data)
      body == LoopBody(config, fullUniverse, dataMap, currentPortfolio, d)
  IN  /\ assetDataMap' = dataMap
      /\ currentPortfolio' = body.portfolio
      /\ rebalanceHistory' = rebalanceHistory \o body.events
      /\ weightHistoryMap' = RecordWeights(weightHistoryMap, body.portfolio)
      /\ lastBranch' = body.branch
      /\ d' = d + 1
      /\ feed' = choice.feed
      /\ UNCHANGED << config, fullUniverse, pc, result, screening, givenVars >>

InLoop == pc = "loop" /\ d < feed.horizon

RebalanceDay ==
  /\ InLoop
  /\ DayKind(config, d) = "rebalance"
  /\ \E choice \in DayChoices(feed, fullUniverse, config, d) : Day(choice)

DriftDay ==
  /\ InLoop
  /\ DayKind(config, d) = "drift"
  /\ \E choice \in DayChoices(feed, fullUniverse, config, d) : Day(choice)

FixedWeightsDay ==
  /\ InLoop
  /\ DayKind(config, d) = "fixed"
  /\ \E choice \in DayChoices(feed, fullUniverse, config, d) : Day(choice)

HoldDay ==
  /\ InLoop
  /\ DayKind(config, d) = "hold"
  /\ \E choice \in DayChoices(feed, fullUniverse, config, d) : Day(choice)

\* the calendar ends after d days: the code after the loop, and the return
Finish ==
  /\ pc = "loop"
  /\ pc' = "done"
  /\ result' = LET active == ActiveSymbols(fullUniverse, weightHistoryMap)
                   nav == IndexNav(active, weightHistoryMap, assetDataMap, d)
               IN  [ numDays |-> d,
                     nav |-> nav,
                     activeSymbols |-> active,
                     constituents |-> Constituents(active, weightHistoryMap),
                     benchmarkNav |-> BenchmarkNav(assetDataMap),
                     universeStats |-> UniverseStats(config, fullUniverse, assetDataMap) ]
  /\ UNCHANGED << config, fullUniverse, assetDataMap, d, currentPortfolio,
                  weightHistoryMap, rebalanceHistory, lastBranch, screening, feed,
                  givenVars >>

\* the market data of day dd as screenUniverse takes it, without the symbols in missing
MarketDataMap(dataMap, dd, missing) ==
  [sym \in (DOMAIN dataMap) \ missing |->
     [ price |-> dataMap[sym].prices[dd + 1], mcap |-> dataMap[sym].mcaps[dd + 1],
       avgDailyVol |-> dataMap[sym].vols[dd + 1] ]]

\* a standalone screenUniverse call on the asset table and the data of day 0
ScreenUniverseCall ==
  /\ pc = "done"
  /\ d >= 1
  /\ ~screening.called
  /\ \E missing \in feed.missing :
       LET out == screenUniverse(fullUniverse, MarketDataMap(assetDataMap, 0, missing),
                                 config.numAssets)
       IN  screening' = [called |-> TRUE, missing |-> missing, results |-> out.results,
                         lstCount |-> out.lstCount]
  /\ UNCHANGED << config, fullUniverse, assetDataMap, d, currentPortfolio,
                  weightHistoryMap, rebalanceHistory, lastBranch, pc, result, feed,
                  givenVars >>

Next == RebalanceDay \/ DriftDay \/ FixedWeightsDay \/ HoldDay \/ Finish

Spec == Init /\ [][Next]_vars

NextOneDay == RebalanceDay \/ FixedWeightsDay \/ Finish \/ ScreenUniverseCall

\* runs over a calendar of at most one day, with a standalone screening of that day
SpecOneDay == InitOneDay /\ [][NextOneDay]_vars

-----------------------------------------------------------------------------
(* runBacktest before the day loop: benchmark check, calendar, alignment *)

\* a price, market cap or volume read at index 0 of an empty array (undefined)
Undefined == -1

\* a variant that takes the benchmark series for granted
BenchmarkAssumed(pd) == TRUE

\* priceData.get('SOL') is defined
BenchmarkPresent(pd) == "SOL" \in DOMAIN pd

\* dates.findIndex(pred), hit[i] telling whether pred holds of the i-th date: the 0-based
\* index of the first hit, else -1
FindIndex(hit) ==
  IF \E i \in 1..Len(hit) : hit[i]
  THEN (CHOOSE i \in 1..Len(hit) : hit[i] /\ \A j \in 1..(i - 1) : ~hit[j]) - 1
  ELSE -1

\* dates.slice(from, to) with 0-based bounds within 0 .. dates.length
Slice(dates, from, to) == SubSeq(dates, from + 1, to)

\* { '6M': 6, '12M': 12, '24M': 24, '36M': 36 }[config.backtestWindow] || 12
ReqMonths(window) ==
  IF window = "6M" THEN 6 ELSE IF window = "24M" THEN 24 ELSE IF window = "36M" THEN 36 ELSE 12

\* an unset date is 0; a date that is set is a day number >= 1
DateSet(date) == date # 0

\* a variant of the trimming that counts the window back from today
TrimDatesFromToday(dates, cfg) == SubSeq(dates, 1 + now, Len(dates))

\* backtestDates: the custom range when both dates are set, else the backtest window
TrimDates(dates, cfg) ==
  IF DateSet(cfg.startDate) /\ DateSet(cfg.endDate)
  THEN LET startIdx == FindIndex([i \in 1..Len(dates) |-> dates[i] >= cfg.startDate])
           endIdx == FindIndex([i \in 1..Len(dates) |-> dates[i] > cfg.endDate])
       IN  Slice(dates, IF startIdx >= 0 THEN startIdx ELSE 0,
                        IF endIdx >= 0 THEN endIdx ELSE Len(dates))
  ELSE LET reqDays == ReqMonths(cfg.backtestWindow) * 30
           startIndex == IF Len(dates) - reqDays > 0 THEN Len(dates) - reqDays ELSE 0
       IN  Slice(dates, startIndex, Len(dates))

\* arr[0], undefined on an empty array
FirstOf(arr) == IF Len(arr) > 0 THEN arr[1] ELSE Undefined

\* the value pushed for one calendar date: the asset's own value of that date, else the
\* value pushed before it, else arr[0]
AlignedValue(data, arr, date, pushed) ==
  LET idx == FindIndex([i \in 1..Len(data.dates) |-> data.dates[i] = date])
  IN  IF idx >= 0 THEN arr[idx + 1]
      ELSE IF Len(pushed) > 0 THEN pushed[Len(pushed)]
      ELSE FirstOf(arr)

\* for (const date of backtestDates) { ... push ... }
RECURSIVE AlignLoop(_, _, _, _)
AlignLoop(data, calendar, k, acc) ==
  IF k > Len(calendar) THEN acc
  ELSE AlignLoop(data, calendar, k + 1,
         [ prices |-> Append(acc.prices,
                             AlignedValue(data, data.prices, calendar[k], acc.prices)),
           mcaps  |-> Append(acc.mcaps,
                             AlignedValue(data, data.marketCaps, calendar[k], acc.mcaps)),
           vols   |-> Append(acc.vols,
                             AlignedValue(data, data.volumes, calendar[k], acc.vols)) ])

AlignSeries(data, calendar) ==
  AlignLoop(data, calendar, 1, [prices |-> << >>, mcaps |-> << >>, vols |-> << >>])

\* for (const [symbol, data] of priceData.entries()) assetDataMap[symbol] = {...}
RECURSIVE AlignEntries(_, _, _)
AlignEntries(pd, calendar, syms) ==
  IF syms = {} THEN << >>
  ELSE LET sym == CHOOSE x \in syms : TRUE
       IN  (sym :> AlignSeries(pd[sym], calendar)) @@ AlignEntries(pd, calendar, syms \ {sym})

\* assetDataMap: one aligned entry per entry of priceData
AlignAll(pd, calendar) == AlignEntries(pd, calendar, DOMAIN pd)

(* Inputs of the first part *)

MaxDate == 4

\* the sorted sequence of the dates in S
RECURSIVE SortedDates(_)
SortedDates(S) ==
  IF S = {} THEN << >>
  ELSE LET m == CHOOSE x \in S : \A y \in S : x <= y
       IN  << m >> \o SortedDates(S \ {m})

\* a series with a data point on each date of S; the values name the date they belong to
SeriesOn(S) ==
  LET ds == SortedDates(S)
  IN  [ dates      |-> ds,
        prices     |-> [i \in 1..Len(ds) |-> 10 + ds[i]],
        marketCaps |-> [i \in 1..Len(ds) |-> 20 + ds[i]],
        volumes    |-> [i \in 1..Len(ds) |-> 30 + ds[i]] ]

\* runBacktest is called with priceData for SOL and X, for X alone, or for SOL alone
InitGiven ==
  /\ \E sol \in SUBSET (1..MaxDate), x \in SUBSET (1..MaxDate),
        keys \in {{"SOL", "X"}, {"X"}, {"SOL"}} :
       /\ ("SOL" \notin keys) => (sol = {})
       /\ ("X" \notin keys) => (x = {})
       /\ priceData = [sym \in keys |-> IF sym = "SOL" THEN SeriesOn(sol) ELSE SeriesOn(x)]
  /\ \E start \in 0..(MaxDate + 1), end \in 0..(MaxDate + 1) :
       config = [rebalanceInterval |-> "weekly", numAssets |-> 1, maxWeight |-> One,
                 fixedWeights |-> NoFixedWeights, backtestWindow |-> "12M",
                 startDate |-> start, endDate |-> end]
  /\ fullUniverse = << >>
  /\ assetDataMap = << >>
  /\ d = 0
  /\ currentPortfolio = << >>
  /\ weightHistoryMap = << >>
  /\ rebalanceHistory = << >>
  /\ lastBranch = "none"
  /\ pc = "start"
  /\ result = NoResult
  /\ screening = NoScreening
  /\ feed = [kind |-> "given", horizon |-> 0, cur |-> 0, changes |-> 0,
             prices |-> {}, mcaps |-> {}, vols |-> {}, missing |-> {{}}]
  /\ backtestDates = << >>
  /\ series = << >>
  /\ stats = NoStats
  /\ runs = NoRuns
  /\ now = 0
  /\ cache = NoEntry
  /\ fetch = NoFetch

\* if (!solData) throw new Error('SOL data required for benchmark')
CheckBenchmark ==
  /\ pc = "start"
  /\ pc' = IF BenchmarkPresent(priceData) THEN "trim" ELSE "failed"
  /\ UNCHANGED << config, fullUniverse, assetDataMap, d, currentPortfolio,
                  weightHistoryMap, rebalanceHistory, lastBranch, result, screening, feed,
                  givenVars >>

TrimCalendar ==
  /\ pc = "trim"
  /\ backtestDates' = TrimDates(priceData["SOL"].dates, config)
  /\ pc' = "align"
  /\ UNCHANGED << config, fullUniverse, assetDataMap, d, currentPortfolio,
                  weightHistoryMap, rebalanceHistory, lastBranch, result, screening, feed,
                  priceData, series, stats, callVars >>

AlignAssets ==
  /\ pc = "align"
  /\ assetDataMap' = AlignAll(priceData, backtestDates)
  /\ pc' = "aligned"
  /\ UNCHANGED << config, fullUniverse, d, currentPortfolio,
                  weightHistoryMap, rebalanceHistory, lastBranch, result, screening, feed,
                  givenVars >>

NextGiven == CheckBenchmark \/ TrimCalendar \/ AlignAssets

\* runBacktest from the call to the aligned arrays the day loop reads
SpecGiven == InitGiven /\ [][NextGiven]_vars

(***************************************************************************)
(* Inputs of calculateStats *)
(***************************************************************************)
MaxLen == 3

\* the values of a NAV series: halvings and doublings of the base level 100, and 0
NavValues == {RInt(0), RInt(50), RInt(100), RInt(200)}

\* the series an index that gains 10% and then loses 10% leaves
GainThenLoss == << RInt(100), RInt(110), RInt(99) >>

NavSeries == UNION {[1..len -> NavValues] : len \in 0..MaxLen} \cup {GainThenLoss}

InitStats ==
  /\ series \in NavSeries
  /\ stats = NoStats
  /\ pc = "stats"
  /\ config = [rebalanceInterval |-> "weekly", numAssets |-> 1, maxWeight |-> One,
               fixedWeights |-> NoFixedWeights, backtestWindow |-> "12M",
               startDate |-> 0, endDate |-> 0]
  /\ fullUniverse = << >>
  /\ assetDataMap = << >>
  /\ d = 0
  /\ currentPortfolio = << >>
  /\ weightHistoryMap = << >>
  /\ rebalanceHistory = << >>
  /\ lastBranch = "none"
  /\ result = NoResult
  /\ screening = NoScreening
  /\ feed = [kind |-> "given", horizon |-> 0, cur |-> 0, changes |-> 0,
             prices |-> {}, mcaps |-> {}, vols |-> {}, missing |-> {{}}]
  /\ priceData = NoPriceData
  /\ backtestDates = << >>
  /\ runs = NoRuns
  /\ now = 0
  /\ cache = NoEntry
  /\ fetch = NoFetch

CalculateStatsCall ==
  /\ pc = "stats"
  /\ stats' = calculateStats(series)
  /\ pc' = "computed"
  /\ UNCHANGED << config, fullUniverse, assetDataMap, d, currentPortfolio,
                  weightHistoryMap, rebalanceHistory, lastBranch, result, screening, feed,
                  priceData, backtestDates, series, callVars >>

NextStats == CalculateStatsCall

\* calculateStats applied to a NAV series
SpecStats == InitStats /\ [][NextStats]_vars

-----------------------------------------------------------------------------
(* runBacktest as a whole: from (config, priceData) to the BacktestResponse *)

\* SOLANA_ASSETS.filter(a => availableSymbols.includes(a.symbol)), no custom assets
UniverseFor(table, pd) ==
  LET idx == FilterIdx(Len(table), [i \in 1..Len(table) |-> table[i].symbol \in DOMAIN pd])
  IN  [k \in 1..Len(idx) |-> table[idx[k]]]

\* the end of one pass of the loop: the portfolio replaced, its weights recorded, the
\* events of the day appended
AfterDay(st, body) ==
  [ portfolio |-> body.portfolio,
    whm       |-> RecordWeights(st.whm, body.portfolio),
    history   |-> st.history \o body.events ]

\* for (let d = 0; d < backtestDates.length; d++): the loop from day dd on, st holding
\* currentPortfolio, weightHistoryMap and rebalanceHistory
RECURSIVE RunLoop(_, _, _, _, _, _)
RunLoop(cfg, universe, dataMap, dd, numDays, st) ==
  IF dd >= numDays THEN st
  ELSE RunLoop(cfg, universe, dataMap, dd + 1, numDays,
               AfterDay(st, LoopBody(cfg, universe, dataMap, st.portfolio, dd)))

\* what a run leaves in the priceData map it was given: it only reads it
InputDatesShifted(pd) ==
  [sym \in DOMAIN pd |-> [pd[sym] EXCEPT !.dates = [i \in 1..Len(@) |-> @[i] + 1]]]

InputAfterRun(pd) == pd

\* return { config, dates, nav, indexStats, benchmarkNav, benchmarkStats, constituents,
\*          rebalanceHistory, universeStats }
Response(cfg, calendar, fin, indexNav, solNav, constituents, universeStats) ==
  [ failed           |-> FALSE,
    config           |-> cfg,
    dates            |-> calendar,
    nav              |-> indexNav,
    indexStats       |-> calculateStats(indexNav),
    benchmarkNav     |-> solNav,
    benchmarkStats   |-> calculateStats(solNav),
    constituents     |-> constituents,
    rebalanceHistory |-> fin.history,
    universeStats    |-> universeStats ]

\* after the loop: the active symbols, the two NAV series, the constituents, the statistics
AfterLoop(cfg, universe, dataMap, calendar, fin) ==
  Response(cfg, calendar, fin,
           IndexNav(ActiveSymbols(universe, fin.whm), fin.whm, dataMap, Len(calendar)),
           BenchmarkNav(dataMap),
           Constituents(ActiveSymbols(universe, fin.whm), fin.whm),
           UniverseStats(cfg, universe, dataMap))

\* the simulation over the aligned data, from an empty portfolio and empty histories
Simulate(cfg, universe, dataMap, calendar) ==
  AfterLoop(cfg, universe, dataMap, calendar,
            RunLoop(cfg, universe, dataMap, 0, Len(calendar),
                    [ portfolio |-> << >>,
                      whm       |-> [sym \in Range(UniverseSymbols(universe)) |-> << >>],
                      history   |-> << >> ]))

\* the synchronous part of runBacktest: the response, or the thrown error
RunBacktest(cfg, pd) ==
  IF ~BenchmarkPresent(pd) THEN [failed |-> TRUE]
  ELSE Simulate(cfg, UniverseFor(SimUniverse, pd),
                AlignAll(pd, TrimDates(pd["SOL"].dates, cfg)),
                TrimDates(pd["SOL"].dates, cfg))

(* Inputs of the whole runs *)

MaxRunDays == 3

MaxNow == 1

RunIds == {1, 2}

\* NormalizedPriceData with one row per date 1..Len(rows)
RawSeries(rows) ==
  [ dates      |-> [i \in 1..Len(rows) |-> i],
    prices     |-> [i \in 1..Len(rows) |-> rows[i].price],
    marketCaps |-> [i \in 1..Len(rows) |-> rows[i].mcap],
    volumes    |-> [i \in 1..Len(rows) |-> rows[i].vol] ]

\* the rows a series moves between: the market cap alone may rise, or the price with it
RunRows == {Row(1, 1, VolOk), Row(1, 3, VolOk), Row(2, 3, VolOk)}

RunConfigs ==
  { [rebalanceInterval |-> "weekly", numAssets |-> 2, maxWeight |-> Rat(3, 5),
     fixedWeights |-> fw, backtestWindow |-> "12M", startDate |-> start,
     endDate |-> IF start = 0 THEN 0 ELSE MaxRunDays] :
      start \in {0, 2},
      fw \in {NoFixedWeights, FixedWeights(<< FW("JUP", Rat(1, 2)), FW("BONK", Rat(1, 2)) >>)} }

\* SOL flat or rising, JUP changing row on the last day at most, BONK constant; the
\* priceData map may lack the benchmark
InitRuns ==
  /\ config \in RunConfigs
  /\ \E first \in RunRows, last \in RunRows, flat \in BOOLEAN,
        keys \in {{"SOL", "JUP", "BONK"}, {"JUP", "BONK"}} :
       /\ ("SOL" \notin keys) => (flat /\ first = Row(1, 1, VolOk) /\ last = first)
       /\ priceData =
            [sym \in keys |->
               IF sym = "SOL"
               THEN RawSeries([i \in 1..MaxRunDays |-> Row(IF flat THEN 1 ELSE i, 3, VolOk)])
               ELSE IF sym = "JUP"
               THEN RawSeries([i \in 1..MaxRunDays |-> IF i < MaxRunDays THEN first ELSE last])
               ELSE RawSeries([i \in 1..MaxRunDays |-> Row(1, 1, VolOk)])]
  /\ runs = [r \in RunIds |-> [pc |-> "idle", at |-> 0, sawOther |-> FALSE,
                               out |-> [failed |-> FALSE]]]
  /\ now = 0
  /\ cache = NoEntry
  /\ fetch = NoFetch
  /\ fullUniverse = << >>
  /\ assetDataMap = << >>
  /\ d = 0
  /\ currentPortfolio = << >>
  /\ weightHistoryMap = << >>
  /\ rebalanceHistory = << >>
  /\ lastBranch = "none"
  /\ pc = "calls"
  /\ result = NoResult
  /\ screening = NoScreening
  /\ feed = [kind |-> "given", horizon |-> 0, cur |-> 0, changes |-> 0,
             prices |-> {}, mcaps |-> {}, vols |-> {}, missing |-> {{}}]
  /\ backtestDates = << >>
  /\ series = << >>
  /\ stats = NoStats

OtherWaiting(r) == \E o \in RunIds \ {r} : runs[o].pc = "waiting"

\* the synchronous part of call r runs to its end on the config and priceData of the moment
Complete(r) ==
  /\ runs' = [runs EXCEPT ![r] = [pc |-> "done", at |-> now, sawOther |-> OtherWaiting(r),
                                  out |-> RunBacktest(config, priceData)]]
  /\ priceData' = InputAfterRun(priceData)

\* runBacktest(config, priceData, {fast}), the calls made in the order of RunIds: with
\* fast the call completes at once, else it is suspended at
\* await new Promise(resolve => setTimeout(resolve, 100))
Call(r) ==
  /\ pc = "calls"
  /\ runs[r].pc = "idle"
  /\ \A o \in RunIds : o < r => runs[o].pc # "idle"
  /\ \E fast \in BOOLEAN :
       IF fast THEN Complete(r)
       ELSE /\ runs' = [runs EXCEPT ![r].pc = "waiting"]
            /\ UNCHANGED priceData
  /\ UNCHANGED << config, fullUniverse, assetDataMap, d, currentPortfolio,
                  weightHistoryMap, rebalanceHistory, lastBranch, pc, result, screening,
                  feed, backtestDates, series, stats, now, cache, fetch >>

\* the timer fires and the call runs to its end
Resume(r) ==
  /\ pc = "calls"
  /\ runs[r].pc = "waiting"
  /\ Complete(r)
  /\ UNCHANGED << config, fullUniverse, assetDataMap, d, currentPortfolio,
                  weightHistoryMap, rebalanceHistory, lastBranch, pc, result, screening,
                  feed, backtestDates, series, stats, now, cache, fetch >>

\* time passes while a call is suspended
Tick ==
  /\ pc = "calls"
  /\ now < MaxNow
  /\ \E r \in RunIds : runs[r].pc = "waiting"
  /\ now' = now + 1
  /\ UNCHANGED << config, fullUniverse, assetDataMap, d, currentPortfolio,
                  weightHistoryMap, rebalanceHistory, lastBranch, pc, result, screening,
                  feed, priceData, backtestDates, series, stats, runs, cache, fetch >>

NextRuns == (\E r \in RunIds : Call(r)) \/ (\E r \in RunIds : Resume(r)) \/ Tick

\* two calls of runBacktest on the same config and the same priceData map
SpecRuns == InitRuns /\ [][NextRuns]_vars

-----------------------------------------------------------------------------
(* coingeckoService on cacheService: the fetch of one asset's series *)

MaxClock == 3

\* API_CONFIG.CACHE_TTL_MS, in ticks of the clock
CACHE_TTL == 2

\* the entry cacheService.set stores at time at
CacheEntry(data, at) ==
  [held |-> TRUE, data |-> data, fetchedAt |-> at, expiresAt |-> at + CACHE_TTL]

\* Date.now() > entry.expiresAt
isExpired(entry) == now > entry.expiresAt

\* CacheService.get: the stored entry, or null (NoEntry) when there is none or it has
\* expired; an expired entry stays in the store
CacheGet == IF cache.held /\ ~isExpired(cache) THEN cache ELSE NoEntry

Fetchers == {"fetchAllAssetData", "fetchAssetData"}

\* a fetch about to start, with or without an entry in the store, fresh or not
InitFetch ==
  /\ now = 0
  /\ cache \in {NoEntry} \cup {CacheEntry("old", e - CACHE_TTL) : e \in 0..MaxClock}
  /\ \E fn \in Fetchers, forceRefresh \in BOOLEAN :
       fetch = [fn |-> fn, forceRefresh |-> forceRefresh, pc |-> "cache",
                outcome |-> "pending", data |-> "none", usedCache |-> FALSE,
                staleHeld |-> FALSE]
  /\ pc = "fetch"
  /\ runs = NoRuns
  /\ config = [rebalanceInterval |-> "weekly", numAssets |-> 1, maxWeight |-> One,
               fixedWeights |-> NoFixedWeights]
  /\ fullUniverse = << >>
  /\ assetDataMap = << >>
  /\ d = 0
  /\ currentPortfolio = << >>
  /\ weightHistoryMap = << >>
  /\ rebalanceHistory = << >>
  /\ lastBranch = "none"
  /\ result = NoResult
  /\ screening = NoScreening
  /\ feed = [kind |-> "given", horizon |-> 0, cur |-> 0, changes |-> 0,
             prices |-> {}, mcaps |-> {}, vols |-> {}, missing |-> {{}}]
  /\ priceData = NoPriceData
  /\ backtestDates = << >>
  /\ series = << >>
  /\ stats = NoStats

FetchFrame ==
  UNCHANGED << config, fullUniverse, assetDataMap, d, currentPortfolio, weightHistoryMap,
               rebalanceHistory, lastBranch, pc, result, screening, feed, priceData,
               backtestDates, series, stats, runs >>

\* result.set(symbol, entry.data) / return entry.data
Served(entry) ==
  [fetch EXCEPT !.pc = "done", !.outcome = "present", !.data = entry.data,
                !.usedCache = TRUE]

\* if (!forceRefresh) { const cached = await cacheService.get(...); if (cached) ... }
CheckCache ==
  /\ pc = "fetch" /\ fetch.pc = "cache"
  /\ fetch' = IF ~fetch.forceRefresh /\ CacheGet.held THEN Served(CacheGet)
              ELSE [fetch EXCEPT !.pc = "api"]
  /\ UNCHANGED << cache, now >>
  /\ FetchFrame

\* fetchFromApi resolves: the data is returned and stored with a new expiry
ApiSucceeds ==
  /\ pc = "fetch" /\ fetch.pc = "api"
  /\ cache' = CacheEntry("fresh", now)
  /\ fetch' = [fetch EXCEPT !.pc = "done", !.outcome = "present", !.data = "fresh"]
  /\ UNCHANGED now
  /\ FetchFrame

\* fetchFromApi rejects: control enters the catch block
ApiFails ==
  /\ pc = "fetch" /\ fetch.pc = "api"
  /\ fetch' = [fetch EXCEPT !.pc = "stale", !.staleHeld = cache.held /\ isExpired(cache)]
  /\ UNCHANGED << cache, now >>
  /\ FetchFrame

\* "Try to use stale cache as last resort": const staleCache = await cacheService.get(...);
\* without it fetchAllAssetData skips the asset and fetchAssetData throws
StaleFallback ==
  /\ pc = "fetch" /\ fetch.pc = "stale"
  /\ fetch' = IF CacheGet.held THEN Served(CacheGet)
              ELSE [fetch EXCEPT !.pc = "done",
                                 !.outcome = IF fetch.fn = "fetchAllAssetData"
                                             THEN "skipped" ELSE "thrown"]
  /\ UNCHANGED << cache, now >>
  /\ FetchFrame

\* time passes at an await of the fetch
Elapse ==
  /\ pc = "fetch" /\ fetch.pc # "done"
  /\ now < MaxClock
  /\ now' = now + 1
  /\ UNCHANGED << cache, fetch >>
  /\ FetchFrame

NextFetch == CheckCache \/ ApiSucceeds \/ ApiFails \/ StaleFallback \/ Elapse

SpecFetch == InitFetch /\ [][NextFetch]_vars

-----------------------------------------------------------------------------
(* screeningService: validateRebalanceEvent, validateRebalanceHistory *)

Violation(sym, criterion) == [symbol |-> sym, criterion |-> criterion]

ViolationIf(cond, sym, criterion) == IF cond THEN << Violation(sym, criterion) >> ELSE << >>

\* the body of for (const item of includedItems): the violations pushed for one item
ItemViolations(item, assetDefinitions) ==
  LET k == FindSymbol(assetDefinitions, item.symbol)
      assetDef == assetDefinitions[k]
  IN  IF k = 0 THEN << Violation(item.symbol, "Definition") >>
      ELSE    ViolationIf(~assetDef.solanaLaunchOrNexus, item.symbol, "Criteria 1")
           \o ViolationIf(~assetDef.primaryNetworkSolana, item.symbol, "Criteria 2")
           \o ViolationIf(item.avgDailyVol < MIN_AVG_DAILY_VOLUME_USD, item.symbol, "Criteria 3")
           \o ViolationIf(assetDef.hasUnresolvedAuditFindings, item.symbol, "Criteria 4")
           \o ViolationIf(assetDef.category = "Stablecoin", item.symbol, "Category Exclusion")
           \o ViolationIf(~assetDef.isNative, item.symbol, "Native Check")

RECURSIVE ItemsViolations(_, _)
ItemsViolations(items, assetDefinitions) ==
  IF Len(items) = 0 THEN << >>
  ELSE ItemViolations(Head(items), assetDefinitions)
       \o ItemsViolations(Tail(items), assetDefinitions)

\* the violations of one event (the warnings, which depend on the day of the check, are
\* not part of the verdict)
validateRebalanceEvent(event, assetDefinitions) ==
  LET snapshot == event.universeSnapshot
      idx == FilterIdx(Len(snapshot), [i \in 1..Len(snapshot) |-> snapshot[i].status = "INCLUDED"])
      includedItems == [k \in 1..Len(idx) |-> snapshot[idx[k]]]
      lstAssets == FilterIdx(Len(includedItems),
                     [k \in 1..Len(includedItems) |->
                        LET j == FindSymbol(assetDefinitions, includedItems[k].symbol)
                        IN  j # 0 /\ assetDefinitions[j].category = "LST"])
      violations ==
           ItemsViolations(includedItems, assetDefinitions)
        \o ViolationIf(Len(lstAssets) > MAX_LST_POSITIONS, "LSTs", "LST Limit")
        \o ViolationIf(\E k \in 1..Len(includedItems) : includedItems[k].symbol = "SOL",
                       "SOL", "Benchmark Exclusion")
  IN  [ date           |-> event.date,
        isValid        |-> Len(violations) = 0,
        includedAssets |-> [k \in 1..Len(includedItems) |-> includedItems[k].symbol],
        violations     |-> violations ]

validateRebalanceHistory(history, assetDefinitions) ==
  LET results == [i \in 1..Len(history) |-> validateRebalanceEvent(history[i], assetDefinitions)]
      invalidEvents == Cardinality({i \in 1..Len(history) : ~results[i].isValid})
  IN  [ allValid |-> invalidEvents = 0,
        results  |-> results,
        summary  |-> [ totalEvents     |-> Len(history),
                       validEvents     |-> Len(history) - invalidEvents,
                       invalidEvents   |-> invalidEvents,
                       totalViolations |-> SumSeq([i \in 1..Len(history) |->
                                                     Len(results[i].violations)]) ] ]

-----------------------------------------------------------------------------
(* Properties: what is read off a RebalanceEvent *)

Dynamic == ~FixedSet(config)

Events == Range(rebalanceHistory)

Items(e) == 1..Len(e.universeSnapshot)

Included(e) == {i \in Items(e) : e.universeSnapshot[i].status = "INCLUDED"}

RECURSIVE RSumOver(_, _)
RSumOver(f, S) ==
  IF S = {} THEN Zero
  ELSE LET x == CHOOSE y \in S : TRUE IN RAdd(f[x], RSumOver(f, S \ {x}))

RECURSIVE SumOver(_, _)
SumOver(f, S) ==
  IF S = {} THEN 0
  ELSE LET x == CHOOSE y \in S : TRUE IN f[x] + SumOver(f, S \ {x})

WeightOf(e) == [i \in Items(e) |-> e.universeSnapshot[i].weight]

McapOf(e) == [i \in Items(e) |-> e.universeSnapshot[i].mcap]

\* raw weight of item i: its market cap over the sum of the INCLUDED market caps
RawWeightOf(e) ==
  [i \in Items(e) |-> Rat(e.universeSnapshot[i].mcap, SumOver(McapOf(e), Included(e)))]

Clipped(e) == {i \in Included(e) : RGt(RawWeightOf(e)[i], config.maxWeight)}

Unclipped(e) == Included(e) \ Clipped(e)

SurplusOf(e) ==
  RSumOver([i \in Items(e) |-> RSub(RawWeightOf(e)[i], config.maxWeight)], Clipped(e))

\* the single-pass weight of item i
SinglePassWeight(e, i) ==
  IF i \in Clipped(e) THEN config.maxWeight
  ELSE RAdd(RawWeightOf(e)[i], RDiv(SurplusOf(e), RInt(Cardinality(Unclipped(e)))))

\* C1: in dynamic mode the weights of the INCLUDED assets of every RebalanceEvent sum
\* to 1 (stated for the events that include an asset and have a positive total cap)
C1_IncludedWeightsSumToOne ==
  Dynamic =>
    \A e \in Events :
      (Included(e) # {} /\ e.totalMcap > 0) => RSumOver(WeightOf(e), Included(e)) = One

\* C2: every INCLUDED asset carries its single-pass weight: maxWeight when its raw
\* weight exceeds maxWeight, else raw weight + surplus / number of uncapped assets;
\* market caps 3 : 1 with maxWeight 0.6 and numAssets 2 give 0.6 and 0.4
C2_SinglePassAllocation ==
  Dynamic =>
    \A e \in Events :
      /\ \A i \in Included(e) : e.universeSnapshot[i].weight = SinglePassWeight(e, i)
      /\ \A i \in Items(e) \ Included(e) : e.universeSnapshot[i].weight = Zero
      /\ \A i, j \in Included(e) :
           ( /\ Included(e) = {i, j}
             /\ e.universeSnapshot[i].mcap = 3
             /\ e.universeSnapshot[j].mcap = 1
             /\ config.maxWeight = Rat(3, 5) )
           => ( /\ e.universeSnapshot[i].weight = Rat(3, 5)
                /\ e.universeSnapshot[j].weight = Rat(2, 5) )

\* C2 witness: the example, with one asset clipped and the other above its raw weight
C2_Witness ==
  /\ Dynamic
  /\ config.maxWeight = Rat(3, 5)
  /\ config.numAssets = 2
  /\ \E e \in Events : \E i, j \in Included(e) :
       /\ Included(e) = {i, j}
       /\ e.universeSnapshot[i].mcap = 3
       /\ e.universeSnapshot[j].mcap = 1
       /\ e.universeSnapshot[i].weight = Rat(3, 5)
       /\ e.universeSnapshot[j].weight = Rat(2, 5)

\* C3: a weight above maxWeight belongs to an asset whose raw weight was <= maxWeight
\* and that received surplus; an asset whose raw weight exceeded maxWeight has maxWeight
C3_CapOnlyExceededByRedistribution ==
  Dynamic =>
    \A e \in Events : \A i \in Included(e) :
      /\ RGt(e.universeSnapshot[i].weight, config.maxWeight)
           => ( /\ RLe(RawWeightOf(e)[i], config.maxWeight)
                /\ RGt(SurplusOf(e), Zero)
                /\ RGt(e.universeSnapshot[i].weight, RawWeightOf(e)[i]) )
      /\ RGt(RawWeightOf(e)[i], config.maxWeight)
           => e.universeSnapshot[i].weight = config.maxWeight

\* C3 witness: one asset clipped to maxWeight, another lifted above maxWeight
C3_Witness ==
  /\ Dynamic
  /\ \E e \in Events : \E i, j \in Included(e) :
       /\ RGt(RawWeightOf(e)[i], config.maxWeight)
       /\ e.universeSnapshot[i].weight = config.maxWeight
       /\ RLe(RawWeightOf(e)[j], config.maxWeight)
       /\ RGt(e.universeSnapshot[j].weight, config.maxWeight)

-----------------------------------------------------------------------------
(* Properties: screening, read off the snapshots and the screenUniverse results *)

\* the six base criteria in the order they are checked, each with its rejection status
Criteria(asset, vol) ==
  << [pass |-> asset.category # "Stablecoin" /\ asset.symbol # "SOL",
      status |-> "REJECTED_CATEGORY"],
     [pass |-> asset.solanaLaunchOrNexus,        status |-> "REJECTED_LAUNCH"],
     [pass |-> asset.primaryNetworkSolana,       status |-> "REJECTED_PRIMARY_NETWORK"],
     [pass |-> asset.isNative,                   status |-> "REJECTED_NATIVE"],
     [pass |-> vol >= 200000,                    status |-> "REJECTED_VOL"],
     [pass |-> ~asset.hasUnresolvedAuditFindings, status |-> "REJECTED_AUDIT"] >>

Failing(asset, vol) == {k \in 1..6 : ~Criteria(asset, vol)[k].pass}

FirstFailing(asset, vol) ==
  IF Failing(asset, vol) = {} THEN "INCLUDED"
  ELSE LET k == CHOOSE x \in Failing(asset, vol) : \A y \in Failing(asset, vol) : x <= y
       IN  Criteria(asset, vol)[k].status

AssetOf(sym) == fullUniverse[FindSymbol(fullUniverse, sym)]

\* a screened table: per asset its final status, market cap, category and base status
EventView(e) ==
  [i \in Items(e) |->
     LET it == e.universeSnapshot[i]
     IN  [ symbol   |-> it.symbol,
           status   |-> it.status,
           mcap     |-> it.mcap,
           category |-> AssetOf(it.symbol).category,
           base     |-> FirstFailing(AssetOf(it.symbol),
                                     assetDataMap[it.symbol].vols[e.date + 1]) ]]

ScreeningView ==
  [i \in 1..Len(screening.results) |->
     LET r == screening.results[i]
         noData == r.symbol \in screening.missing
     IN  [ symbol   |-> r.symbol,
           status   |-> r.status,
           mcap     |-> IF noData THEN 0 ELSE assetDataMap[r.symbol].mcaps[1],
           category |-> AssetOf(r.symbol).category,
           base     |-> IF noData THEN "NO_DATA"
                        ELSE FirstFailing(AssetOf(r.symbol), assetDataMap[r.symbol].vols[1]) ]]

\* the tables screened by the dynamic rebalances and by screenUniverse
Views ==
  (IF Dynamic THEN {EventView(e) : e \in Events} ELSE {})
    \cup (IF screening.called THEN {ScreeningView} ELSE {})

WithStatus(v, sts) == {i \in DOMAIN v : v[i].status \in sts}

PassingLsts(v) == {i \in DOMAIN v : v[i].base = "INCLUDED" /\ v[i].category = "LST"}

PassingOthers(v) == {i \in DOMAIN v : v[i].base = "INCLUDED" /\ v[i].category # "LST"}

\* k: the number of assets left after the base screening and the LST cap
AfterLstCap(v) == Cardinality(PassingOthers(v)) + (IF PassingLsts(v) = {} THEN 0 ELSE 1)

Min(a, b) == IF a < b THEN a ELSE b

\* C4: an asset failing a base criterion has the status of the first criterion it fails,
\* in the order category, launch, primary network, native, volume, audit; an asset is
\* INCLUDED only if it passes all six
C4_FirstFailingCriterion ==
  \A v \in Views : \A i \in DOMAIN v :
    /\ v[i].base \notin {"INCLUDED", "NO_DATA"} => v[i].status = v[i].base
    /\ v[i].status = "INCLUDED" => v[i].base = "INCLUDED"
    /\ v[i].base = "INCLUDED" =>
         \/ v[i].status \in {"INCLUDED", "REJECTED_RANK"}
         \/ v[i].status = "REJECTED_CATEGORY" /\ v[i].category = "LST"

\* C4 witness: an asset failing the launch, native and volume criteria is REJECTED_LAUNCH
\* in the snapshot and in the screenUniverse result
C4_Witness ==
  /\ screening.called
  /\ Len(rebalanceHistory) = 1
  /\ Dynamic
  /\ \A v \in {EventView(rebalanceHistory[1]), ScreeningView} : \E i \in DOMAIN v :
       /\ ~AssetOf(v[i].symbol).solanaLaunchOrNexus
       /\ ~AssetOf(v[i].symbol).isNative
       /\ AssetOf(v[i].symbol).primaryNetworkSolana
       /\ AssetOf(v[i].symbol).category = "DeFi"
       /\ assetDataMap[v[i].symbol].vols[1] < 200000
       /\ v[i].status = "REJECTED_LAUNCH"

\* C5: with k assets left after the base screening and the LST cap, min(numAssets, k) are
\* INCLUDED, the other k - min(numAssets, k) are REJECTED_RANK, and no REJECTED_RANK
\* asset has a larger market cap than an INCLUDED one
C5_RankCut ==
  \A v \in Views :
    LET k == AfterLstCap(v)
        inc == WithStatus(v, {"INCLUDED"})
        out == WithStatus(v, {"REJECTED_RANK"})
    IN  /\ Cardinality(inc) = Min(config.numAssets, k)
        /\ Cardinality(out) = k - Min(config.numAssets, k)
        /\ \A r \in out : \A i \in inc : v[r].mcap <= v[i].mcap

\* C5 witness: three assets left, two INCLUDED and the smallest one REJECTED_RANK
C5_Witness ==
  /\ config.numAssets = 2
  /\ \E e \in Events :
       /\ Dynamic
       /\ AfterLstCap(EventView(e)) = 3
       /\ \E r \in WithStatus(EventView(e), {"REJECTED_RANK"}) :
            \A i \in Included(e) : e.universeSnapshot[r].mcap < e.universeSnapshot[i].mcap

LstIncluded(v) == {i \in DOMAIN v : v[i].status = "INCLUDED" /\ v[i].category = "LST"}

C7_LstCapBeforeRank ==
  \A v \in Views :
    LET lsts == PassingLsts(v)
        kept == {i \in lsts : v[i].status \in {"INCLUDED", "REJECTED_RANK"}}
    IN  lsts # {} =>
          /\ Cardinality(kept) = 1
          /\ \A i \in kept : \A j \in lsts : v[j].mcap <= v[i].mcap
          /\ \A j \in lsts \ kept : v[j].status = "REJECTED_CATEGORY"
          /\ Cardinality(WithStatus(v, {"INCLUDED"}))
               = Min(config.numAssets, Cardinality(PassingOthers(v)) + 1)

\* C7 witness: two passing LSTs larger than the passing non-LST asset, numAssets 2: the
\* smaller LST is REJECTED_CATEGORY and the non-LST asset is INCLUDED
C7_Witness ==
  /\ Dynamic
  /\ config.numAssets = 2
  /\ \E e \in Events :
       LET v == EventView(e)
       IN  /\ Cardinality(PassingLsts(v)) = 2
           /\ \E o \in PassingOthers(v) :
                /\ v[o].status = "INCLUDED"
                /\ \A l \in PassingLsts(v) : v[l].mcap > v[o].mcap
           /\ \E l \in PassingLsts(v) : v[l].status = "REJECTED_CATEGORY"

-----------------------------------------------------------------------------
(* Properties: the index NAV, the rebalance calendar and the drift *)

Done == pc = "done"

Symbols == DOMAIN weightHistoryMap

\* price of sym on day t, weight recorded for sym on day t (days count from 0)
PriceOn(sym, t) == assetDataMap[sym].prices[t + 1]

WeightOn(sym, t) == weightHistoryMap[sym][t + 1]

\* w_i[t-1] * (price_i[t] / price_i[t-1] - 1)
ReturnTerm(sym, t) ==
  RMul(WeightOn(sym, t - 1), RSub(Rat(PriceOn(sym, t), PriceOn(sym, t - 1)), One))

\* the same, counted only for a positive weight and non-zero prices on both days
GuardedReturnTerm(sym, t) ==
  IF RGt(WeightOn(sym, t - 1), Zero) /\ PriceOn(sym, t) # 0 /\ PriceOn(sym, t - 1) # 0
  THEN ReturnTerm(sym, t)
  ELSE Zero

NavOn(t) == result.nav[t + 1]

\* C8: nav[0] = 100 and nav[t] = nav[t-1] * (1 + sum of w_i[t-1] * (p_i[t]/p_i[t-1] - 1)),
\* the sum taken over the assets with w_i[t-1] > 0 and non-zero prices on days t-1 and t
C8_NavRecurrenceGuarded ==
  Done =>
    /\ NavOn(0) = RInt(100)
    /\ Len(result.nav) = (IF result.numDays = 0 THEN 1 ELSE result.numDays)
    /\ \A t \in 1..(result.numDays - 1) :
         NavOn(t) = RMul(NavOn(t - 1),
                         RAdd(One, RSumOver([sym \in Symbols |-> GuardedReturnTerm(sym, t)],
                                            Symbols)))

\* C8 as claimed: the sum taken over all assets, whatever their weights and prices
C8_NavRecurrence ==
  Done =>
    /\ NavOn(0) = RInt(100)
    /\ \A t \in 1..(result.numDays - 1) :
         NavOn(t) = RMul(NavOn(t - 1),
                         RAdd(One, RSumOver([sym \in Symbols |-> ReturnTerm(sym, t)],
                                            Symbols)))

\* C8 witness: a day t on which the NAV moves, the weights recorded on t differ from those
\* of t-1, and an asset held on t-1 has price 0 on t
C8_Witness ==
  /\ Done
  /\ \E t \in 1..(result.numDays - 1) :
       /\ NavOn(t) # NavOn(t - 1)
       /\ IsFinite(NavOn(t))
       /\ \E sym \in Symbols : WeightOn(sym, t) # WeightOn(sym, t - 1)
       /\ \E sym \in Symbols : RGt(WeightOn(sym, t - 1), Zero) /\ PriceOn(sym, t) = 0

CadenceDays == [weekly |-> 7, biweekly |-> 14, monthly |-> 30]

\* ceil(n / c)
CeilDiv(n, c) == (n + c - 1) \div c

EventDates == {rebalanceHistory[k].date : k \in 1..Len(rebalanceHistory)}

\* C9: in dynamic mode, after d days the events are those of the days t < d with t = 0 or
\* t mod c = 0 (c = 7, 14, 30), one per day, ceil(d / c) in all, with increasing dates; a
\* shorter cadence gives no fewer events over the same d days
C9_RebalanceCalendar ==
  Dynamic =>
    LET c == CadenceDays[config.rebalanceInterval]
    IN  /\ EventDates = {t \in 0..(d - 1) : t = 0 \/ t % c = 0}
        /\ Len(rebalanceHistory) = CeilDiv(d, c)
        /\ \A k \in 1..(Len(rebalanceHistory) - 1) :
             rebalanceHistory[k].date < rebalanceHistory[k + 1].date
        /\ \A iv \in DOMAIN CadenceDays :
             /\ CadenceDays[iv] < c => CeilDiv(d, CadenceDays[iv]) >= Len(rebalanceHistory)
             /\ CadenceDays[iv] > c => CeilDiv(d, CadenceDays[iv]) <= Len(rebalanceHistory)

\* C9 witness: 29 days at the biweekly cadence, with the events of days 0, 14 and 28
C9_Witness ==
  /\ Dynamic
  /\ config.rebalanceInterval = "biweekly"
  /\ d = 29
  /\ EventDates = {0, 14, 28}
  /\ Len(rebalanceHistory) = 3

Held(portfolio) == [k \in 1..Len(portfolio) |-> portfolio[k].symbol]

SharesOf(portfolio) == [k \in 1..Len(portfolio) |-> portfolio[k].shares]

\* a step over a day that is no rebalance day, in dynamic mode
NonRebalanceStep ==
  /\ Dynamic
  /\ d' = d + 1
  /\ ~(d = 0 \/ d % CadenceDays[config.rebalanceInterval] = 0)

\* shares_k * price_k[d], the price taken from the series as extended by the step
ValueAt(k) == RMul(currentPortfolio[k].shares, RInt(assetDataMap'[currentPortfolio[k].symbol].prices[d + 1]))

\* the same with a price of 0 counted as 1
ValueOr1At(k) ==
  RMul(currentPortfolio[k].shares,
       RInt(OrElse(assetDataMap'[currentPortfolio[k].symbol].prices[d + 1], 1)))

HeldIdx == 1..Len(currentPortfolio)

\* C10: a non-rebalance day in dynamic mode leaves the held assets and their shares
\* unchanged, appends no event, and sets each weight to value_i / total value, where
\* value_i = shares_i * price_i[d] with a price of 0 counted as 1, and the weight is 0
\* when the total value is not positive
C10_DriftDayGuarded ==
  [][ NonRebalanceStep =>
        /\ Held(currentPortfolio') = Held(currentPortfolio)
        /\ SharesOf(currentPortfolio') = SharesOf(currentPortfolio)
        /\ rebalanceHistory' = rebalanceHistory
        /\ LET total == RSumOver([k \in HeldIdx |-> ValueOr1At(k)], HeldIdx)
           IN  \A k \in HeldIdx :
                 currentPortfolio'[k].weight
                   = IF RGt(total, Zero) THEN RDiv(ValueOr1At(k), total) ELSE Zero ]_vars

\* C10 as claimed: each weight becomes shares_i * price_i[d] / sum of shares_j * price_j[d]
C10_DriftDay ==
  [][ NonRebalanceStep =>
        /\ Held(currentPortfolio') = Held(currentPortfolio)
        /\ SharesOf(currentPortfolio') = SharesOf(currentPortfolio)
        /\ rebalanceHistory' = rebalanceHistory
        /\ \A k \in HeldIdx :
             currentPortfolio'[k].weight
               = RDiv(ValueAt(k), RSumOver([j \in HeldIdx |-> ValueAt(j)], HeldIdx)) ]_vars

\* C10 witness: after a drift day, a held asset's weight differs from the day before, and
\* a held asset with price 0 keeps a positive weight
C10_Witness ==
  /\ Dynamic
  /\ lastBranch = "drift"
  /\ d >= 2
  /\ \E k \in HeldIdx :
       currentPortfolio[k].weight # WeightOn(currentPortfolio[k].symbol, d - 2)
  /\ \E k \in HeldIdx :
       /\ PriceOn(currentPortfolio[k].symbol, d - 1) = 0
       /\ RGt(currentPortfolio[k].weight, Zero)

-----------------------------------------------------------------------------
(* Properties: fixed-weight mode, the held weights, the volume criterion *)

FixedEntries == config.fixedWeights.entries

\* C11: in fixed-weight mode every symbol of the map that has a price series has the
\* supplied weight recorded on every day of the calendar, and the run appends exactly one
\* RebalanceEvent, dated the first day
C11_FixedWeightsHeld ==
  (FixedSet(config) /\ d >= 1) =>
    /\ \A k \in 1..Len(FixedEntries) :
         FixedEntries[k].symbol \in DOMAIN assetDataMap =>
           /\ FixedEntries[k].symbol \in DOMAIN weightHistoryMap
           /\ \A t \in 0..(d - 1) : WeightOn(FixedEntries[k].symbol, t) = FixedEntries[k].weight
    /\ Len(rebalanceHistory) = 1
    /\ rebalanceHistory[1].date = 0

\* C12: in dynamic mode, after every day on which assets are held (and their weights are
\* numbers), the weights of the held assets sum to 1
C12_HeldWeightsSumToOne ==
  (Dynamic /\ d >= 1 /\ currentPortfolio # << >>
     /\ \A k \in HeldIdx : IsFinite(currentPortfolio[k].weight)) =>
    RSumOver([k \in HeldIdx |-> currentPortfolio[k].weight], HeldIdx) = One

\* the days of the 30-day window ending at day t (fewer when the calendar starts later)
VolumeWindow(t) == {u \in 0..t : u > t - 30}

\* the average daily volume of sym over the window ending at t is below 200,000
AvgVolumeBelowThreshold(sym, t) ==
  SumOver([u \in VolumeWindow(t) |-> assetDataMap[sym].vols[u + 1]], VolumeWindow(t))
    < 200000 * Cardinality(VolumeWindow(t))

PassesFirstFour(asset) ==
  /\ asset.category # "Stablecoin" /\ asset.symbol # "SOL"
  /\ asset.solanaLaunchOrNexus
  /\ asset.primaryNetworkSolana
  /\ asset.isNative

\* C19: on every rebalance date in dynamic mode, an asset passing the category, launch,
\* primary-network and native criteria is REJECTED_VOL if and only if its average daily
\* volume over the 30 days ending at that date (or the days available) is below 200,000
C19_ThirtyDayAverageVolume ==
  Dynamic =>
    \A e \in Events : \A i \in Items(e) :
      PassesFirstFour(AssetOf(e.universeSnapshot[i].symbol)) =>
        ( e.universeSnapshot[i].status = "REJECTED_VOL"
            <=> AvgVolumeBelowThreshold(e.universeSnapshot[i].symbol, e.date) )

-----------------------------------------------------------------------------
(* Properties: the calendar, the alignment, the missing benchmark *)

Trimmed == pc \in {"align", "aligned"}

Aligned == pc = "aligned"

OwnDates(sym) == Range(priceData[sym].dates)

\* the asset's own value in arr on its own date t
OwnValue(sym, arr, t) == arr[CHOOSE i \in 1..Len(arr) : priceData[sym].dates[i] = t]

\* C13: with startDate and endDate both set (startDate <= endDate), the calendar is
\* exactly the benchmark dates t with startDate <= t < endDate, in order
C13_RangeStartInclusiveEndExclusive ==
  (Trimmed /\ DateSet(config.startDate) /\ DateSet(config.endDate)
     /\ config.startDate <= config.endDate) =>
    /\ Range(backtestDates)
         = {t \in OwnDates("SOL") : config.startDate <= t /\ t < config.endDate}
    /\ \A k \in 1..(Len(backtestDates) - 1) : backtestDates[k] < backtestDates[k + 1]

\* the value the claim gives a calendar date t the asset has no data for: that of its most
\* recent earlier own date, else its first known value
FilledValue(sym, arr, t) ==
  LET earlier == {u \in OwnDates(sym) : u < t}
  IN  IF earlier # {}
      THEN OwnValue(sym, arr, CHOOSE u \in earlier : \A v \in earlier : v <= u)
      ELSE arr[1]

\* C14: for a non-benchmark asset with a series and a calendar date missing from it, the
\* aligned price, market cap and volume are the asset's values at its most recent earlier
\* date, or its first known values when it has no earlier date
C14_ForwardFillFromLastKnown ==
  Aligned =>
    \A sym \in DOMAIN priceData \ {"SOL"} : \A k \in 1..Len(backtestDates) :
      (OwnDates(sym) # {} /\ backtestDates[k] \notin OwnDates(sym)) =>
        /\ assetDataMap[sym].prices[k]
             = FilledValue(sym, priceData[sym].prices, backtestDates[k])
        /\ assetDataMap[sym].mcaps[k]
             = FilledValue(sym, priceData[sym].marketCaps, backtestDates[k])
        /\ assetDataMap[sym].vols[k]
             = FilledValue(sym, priceData[sym].volumes, backtestDates[k])

\* C15: every asset of priceData has aligned arrays of the length of the calendar, and
\* every entry is a defined number
C15_AlignedArraysDefined ==
  Aligned =>
    \A sym \in DOMAIN priceData :
      /\ Len(assetDataMap[sym].prices) = Len(backtestDates)
      /\ Len(assetDataMap[sym].mcaps) = Len(backtestDates)
      /\ Len(assetDataMap[sym].vols) = Len(backtestDates)
      /\ \A k \in 1..Len(backtestDates) :
           /\ assetDataMap[sym].prices[k] # Undefined
           /\ assetDataMap[sym].mcaps[k] # Undefined
           /\ assetDataMap[sym].vols[k] # Undefined

\* C16: without a SOL entry in priceData the call fails: it never gets past the benchmark
\* check, builds no calendar and no aligned data, appends no event and returns no result;
\* and the call fails for no other input
C16_MissingBenchmarkFails ==
  /\ "SOL" \notin DOMAIN priceData =>
       /\ pc \in {"start", "failed"}
       /\ backtestDates = << >>
       /\ DOMAIN assetDataMap = {}
       /\ rebalanceHistory = << >>
       /\ result = NoResult
  /\ pc = "failed" => "SOL" \notin DOMAIN priceData

\* C16 witness: a call with a series of several days for X and none for SOL has failed
C16_Witness ==
  /\ pc = "failed"
  /\ DOMAIN priceData = {"X"}
  /\ Len(priceData["X"].dates) >= 2
  /\ DateSet(config.startDate)


(***************************************************************************)
(* Properties: calculateStats *)
(***************************************************************************)
Computed == stats.called

Positive(nav) == \A i \in 1..Len(nav) : IsFinite(nav[i]) /\ RGt(nav[i], Zero)

\* max(nav[0..i]): the highest of the points seen so far, the first one included
RunningPeak(nav, i) ==
  CHOOSE m \in {nav[j] : j \in 1..i} : \A j \in 1..i : RLe(nav[j], m)

DrawdownAt(nav, i) == RSub(RDiv(nav[i], RunningPeak(nav, i)), One)

\* the minimum over all indices of value / running peak - 1
DeepestDrawdown(nav) ==
  CHOOSE m \in {DrawdownAt(nav, i) : i \in 1..Len(nav)} :
    \A i \in 1..Len(nav) : RLe(m, DrawdownAt(nav, i))

\* C17: for every series of at least 2 positive values, max_drawdown is the minimum over
\* all indices i of nav[i] / max(nav[0..i]) - 1, the running peak taken over every point
\* seen so far, and cumulative_return is last / first - 1.
C17_MaxDrawdownOverRunningPeak ==
  (Computed /\ Len(series) >= 2 /\ Positive(series)) =>
    /\ stats.max_drawdown = DeepestDrawdown(series)
    /\ stats.cumulative_return = RSub(RDiv(series[Len(series)], series[1]), One)

StatFields ==
  {"cumulative_return", "annualized_return", "annualized_volatility", "sharpe_ratio",
   "max_drawdown"}

\* C18: for any series with fewer than 2 points all five fields are 0, and whenever the
\* annualized volatility is exactly 0 the Sharpe ratio is 0.
C18_DegenerateInputs ==
  Computed =>
    /\ (Len(series) < 2) => \A f \in StatFields : stats[f] = Zero
    /\ (stats.annualized_volatility = Zero) => (stats.sharpe_ratio = Zero)

\* a series of two or more points with a return to annualize and no volatility at all
C18_Witness ==
  /\ Computed
  /\ Len(series) >= 2
  /\ stats.annualized_volatility = Zero
  /\ stats.annualized_return # Zero
  /\ stats.sharpe_ratio = Zero


-----------------------------------------------------------------------------
(* Properties: screening an asset without market data *)

NoData(sym) == sym \in screening.missing

\* C20: an asset for which no market data exists gets status REJECTED_VOL whatever its
\* category and compliance flags, is never selected, and the remaining assets are
\* screened as usual: one result per asset of the table, in the table's order.
C20_NoMarketDataRejected ==
  screening.called =>
    /\ Len(screening.results) = Len(fullUniverse)
    /\ \A i \in 1..Len(fullUniverse) :
         LET r == screening.results[i]
             asset == fullUniverse[i]
         IN  /\ r.symbol = asset.symbol
             /\ NoData(r.symbol) => (r.status = "REJECTED_VOL" /\ ~r.hasMarketData)
             /\ ~NoData(r.symbol) =>
                  LET base == FirstFailing(asset, assetDataMap[r.symbol].vols[1])
                  IN  /\ r.hasMarketData
                      /\ r.criteriaChecks.passedVolumeThreshold
                           = (assetDataMap[r.symbol].vols[1] >= 200000)
                      /\ base # "INCLUDED" => r.status = base
                      /\ base = "INCLUDED" =>
                           r.status \in {"INCLUDED", "REJECTED_RANK", "REJECTED_CATEGORY"}

\* an LST without market data is rejected on volume while another asset of the table is
\* included
C20_Witness ==
  /\ screening.called
  /\ \E i, j \in 1..Len(screening.results) :
       /\ NoData(screening.results[i].symbol)
       /\ fullUniverse[i].category = "LST"
       /\ screening.results[i].status = "REJECTED_VOL"
       /\ ~NoData(screening.results[j].symbol)
       /\ screening.results[j].status = "INCLUDED"


-----------------------------------------------------------------------------
(* Properties: the constituents and the universe statistics of the result *)

ConstituentSymbols == {result.constituents[k].symbol : k \in 1..Len(result.constituents)}

EverPositive(sym) ==
  \E t \in 1..Len(weightHistoryMap[sym]) : RGt(weightHistoryMap[sym][t], Zero)

EverNonZero(sym) ==
  \E t \in 1..Len(weightHistoryMap[sym]) : weightHistoryMap[sym][t] # Zero

\* C21: the constituents array holds one record for an asset if and only if the asset's
\* recorded weight was greater than 0 on at least one day of the calendar.
C21_ConstituentsHeldPositiveWeight ==
  Done =>
    /\ ConstituentSymbols = {sym \in DOMAIN weightHistoryMap : EverPositive(sym)}
    /\ Cardinality(ConstituentSymbols) = Len(result.constituents)

\* C21 as stated: ... if and only if the recorded weight was non-zero on at least one day
C21_ConstituentsHeldNonZeroWeight ==
  Done => (ConstituentSymbols = {sym \in DOMAIN weightHistoryMap : EverNonZero(sym)})

\* a run that ends with a constituent held earlier and dropped since, next to an asset of
\* the universe that was never held
C21_Witness ==
  /\ Done
  /\ \E k \in 1..Len(result.constituents) :
       /\ result.constituents[k].currentWeight = Zero
       /\ EverPositive(result.constituents[k].symbol)
  /\ \E sym \in DOMAIN weightHistoryMap :
       sym \notin ConstituentSymbols /\ ~EverNonZero(sym)


VolsOf(sym) == assetDataMap[sym].vols

\* the mean aligned volume over the calendar is below 200,000
MeanVolBelow(sym) == Len(VolsOf(sym)) > 0 /\ SumSeq(VolsOf(sym)) < 200000 * Len(VolsOf(sym))

\* the mean aligned volume over the calendar is at least 200,000
MeanVolReached(sym) ==
  Len(VolsOf(sym)) > 0 /\ SumSeq(VolsOf(sym)) >= 200000 * Len(VolsOf(sym))

UniverseIdx == 1..Len(fullUniverse)

\* the three counts, given which assets fail on volume
StatsAre(failsVolume) ==
  LET us == result.universeStats
      rest == UniverseIdx \ failsVolume
  IN  /\ us.totalEvaluated = Len(fullUniverse)
      /\ us.failedVolume = Cardinality(failsVolume)
      /\ us.failedNative = Cardinality({i \in rest : ~fullUniverse[i].isNative})
      /\ us.eligibleCount = Cardinality({i \in rest : fullUniverse[i].isNative})
      /\ us.totalEvaluated = us.failedVolume + us.failedNative + us.eligibleCount

\* C22: failedVolume is the number of universe assets whose mean aligned volume over the
\* calendar does not reach 200,000 (all of them when the calendar is empty), failedNative
\* the number of the remaining assets that are not native, eligibleCount the rest; the
\* three sum to totalEvaluated and depend on no status of any rebalance date.
C22_StatsFromWindowMeans ==
  Done => StatsAre({i \in UniverseIdx : ~MeanVolReached(fullUniverse[i].symbol)})

\* C22 as stated: failedVolume counts the assets whose mean volume is below 200,000
C22_StatsFromMeansBelow ==
  Done => StatsAre({i \in UniverseIdx : MeanVolBelow(fullUniverse[i].symbol)})

\* an asset that is INCLUDED in every rebalance event of the run and still counts as
\* failed on volume, its volume having dropped between rebalances
C22_Witness ==
  /\ Done
  /\ Dynamic
  /\ Len(rebalanceHistory) >= 1
  /\ \E i \in UniverseIdx :
       /\ MeanVolBelow(fullUniverse[i].symbol)
       /\ \A e \in Events : \E k \in Items(e) :
            /\ e.universeSnapshot[k].symbol = fullUniverse[i].symbol
            /\ e.universeSnapshot[k].status = "INCLUDED"
  /\ result.universeStats.failedVolume >= 1
  /\ result.universeStats.eligibleCount >= 1

-----------------------------------------------------------------------------
(* Properties: runBacktest as a function of its config and its input series *)

RunDone(r) == runs[r].pc = "done"

RunReturned(r) == RunDone(r) /\ ~runs[r].out.failed

ConstantOver(calendar, sym) ==
  LET data == AlignSeries(priceData[sym], calendar)
  IN  \A i \in 1..Len(calendar) :
        data.prices[i] = data.prices[1] /\ data.vols[i] = data.vols[1]

AllConstant(calendar) == \A sym \in DOMAIN priceData : ConstantOver(calendar, sym)

\* C24: if every asset's price and volume are constant over the whole calendar, then
\* index.nav[d] = 100 on every day d and every field of the index statistics
\* (cumulative return, annualized return, volatility, Sharpe ratio, max drawdown) is 0.
C24_ConstantPricesFlatIndex ==
  \A r \in RunIds :
    (RunReturned(r) /\ AllConstant(runs[r].out.dates)) =>
      /\ \A i \in 1..Len(runs[r].out.nav) : runs[r].out.nav[i] = RInt(100)
      /\ \A f \in StatFields : runs[r].out.indexStats[f] = Zero

\* constant prices over two days or more, with a held asset whose market cap moves
C24_Witness ==
  \E r \in RunIds :
    /\ RunReturned(r)
    /\ AllConstant(runs[r].out.dates)
    /\ Len(runs[r].out.dates) >= 2
    /\ \E k \in 1..Len(runs[r].out.constituents) :
         LET c == runs[r].out.constituents[k]
             data == AlignSeries(priceData[c.symbol], runs[r].out.dates)
         IN  /\ RGt(c.weights[1], Zero)
             /\ \E i \in 1..Len(data.mcaps) : data.mcaps[i] # data.mcaps[1]
    /\ \A i \in 1..Len(runs[r].out.nav) : runs[r].out.nav[i] = RInt(100)

\* every completed run holds the result of a run alone on the config and the map
AsWhenRunAlone == \A r \in RunIds : RunDone(r) => runs[r].out = RunBacktest(config, priceData)

\* no step changes the config or the priceData map
InputsUntouched == config' = config /\ priceData' = priceData

-----------------------------------------------------------------------------
(* Properties: the events of a dynamic run under validateRebalanceEvent *)

\* the INCLUDED item it of a snapshot meets every criterion the validation looks at
MeetsCriteria(it) ==
  LET k == FindSymbol(fullUniverse, it.symbol)
  IN  /\ k # 0
      /\ fullUniverse[k].solanaLaunchOrNexus
      /\ fullUniverse[k].primaryNetworkSolana
      /\ ~fullUniverse[k].hasUnresolvedAuditFindings
      /\ fullUniverse[k].isNative
      /\ fullUniverse[k].category # "Stablecoin"
      /\ it.symbol # "SOL"
      /\ it.avgDailyVol >= 200000

IncludedLsts(e) ==
  {i \in Included(e) : CategoryOf(fullUniverse, e.universeSnapshot[i].symbol) = "LST"}

-----------------------------------------------------------------------------
(* Properties: the recorded weights against the latest RebalanceEvent *)

\* the index of the most recent event dated at or before day t, 0 when there is none
LatestEventAt(t) ==
  LET past == {k \in 1..Len(rebalanceHistory) : rebalanceHistory[k].date <= t}
  IN  IF past = {} THEN 0 ELSE CHOOSE k \in past : \A j \in past : j <= k

IncludedSymbols(e) == {e.universeSnapshot[i].symbol : i \in Included(e)}

RecordedNonZero(t) == {sym \in Symbols : WeightOn(sym, t) # Zero}

\* C27: in dynamic mode, on every day the assets with a non-zero recorded weight are
\* among the INCLUDED assets of the most recent RebalanceEvent dated at or before that
\* day: a rebalance replaces the held portfolio, so an asset dropped at a rebalance has
\* recorded weight 0 from that day until a later rebalance includes it again.
C27_RecordedWithinLatestEvent ==
  Dynamic =>
    \A t \in 0..(d - 1) :
      /\ LatestEventAt(t) # 0
      /\ RecordedNonZero(t) \subseteq IncludedSymbols(rebalanceHistory[LatestEventAt(t)])

\* an asset held with a non-zero weight up to a rebalance that drops it, and recorded
\* with weight 0 on the day of that rebalance and on the day after
C27_Witness ==
  /\ Dynamic
  /\ \E k \in 2..Len(rebalanceHistory) : \E sym \in Symbols :
       LET t == rebalanceHistory[k].date
       IN  /\ t + 1 <= d - 1
           /\ WeightOn(sym, t - 1) # Zero
           /\ sym \in IncludedSymbols(rebalanceHistory[k - 1])
           /\ sym \notin IncludedSymbols(rebalanceHistory[k])
           /\ IncludedSymbols(rebalanceHistory[k]) # {}
           /\ WeightOn(sym, t) = Zero
           /\ WeightOn(sym, t + 1) = Zero

-----------------------------------------------------------------------------
(* Properties: screenUniverse against the inline screening of the same day *)

\* screenUniverse was called on the table, the data of day 0 and numAssets of a dynamic
\* run, every asset of the table having market data
ScreenedBoth ==
  /\ Dynamic
  /\ screening.called
  /\ screening.missing = {}
  /\ Len(rebalanceHistory) >= 1

StatusesOf(items) == [i \in 1..Len(items) |-> << items[i].symbol, items[i].status >>]

-----------------------------------------------------------------------------
(* Properties: the counts of universeStats *)

\* C29: in every result, universeStats.finalSelected <= universeStats.eligibleCount
\* <= universeStats.totalEvaluated: the reported number of selected constituents never
\* exceeds the number of eligible assets.
C29_SelectedWithinEligible ==
  Done =>
    /\ result.universeStats.finalSelected <= result.universeStats.eligibleCount
    /\ result.universeStats.eligibleCount <= result.universeStats.totalEvaluated

-----------------------------------------------------------------------------
(* Properties: the stale entry as a last resort *)

\* C30: when the API request for an asset fails and the cache holds an entry for that
\* asset and day count that is already expired, fetchAllAssetData and fetchAssetData use
\* the expired entry as a last resort: the asset is present in the returned data instead
\* of being skipped or reported as a failure.
C30_ExpiredEntryServed ==
  (fetch.pc = "done" /\ fetch.staleHeld) =>
    (fetch.outcome = "present" /\ fetch.data = cache.data)

====
